---------------------------- MODULE Spec2Model ----------------------------
(***************************************************************************)
(* Model of the relative-date resolver parseReservationDate of             *)
(* skills/restaurant-reservations/vapi-caller.mjs, of the reservation      *)
(* orchestrator makeReservation with findRestaurant and                    *)
(* formatPhoneForCalling, and of the introduction-agent plugin.  Each has  *)
(* its own specification; the variables of the others keep their initial   *)
(* values.                                                                 *)
(*                                                                         *)
(* Strings are TLA+ strings, taken apart with Len and SubSeq.  A JavaScript *)
(* Date at local midnight is its proleptic Gregorian day number (day 1 is  *)
(* Monday 0001-01-01), so that comparing two Dates compares day numbers    *)
(* and getDay() is the day number modulo 7.  Months are 0-based as in      *)
(* JavaScript.  A nullable field holds <<>> for null and <<v>> for v.      *)
(* Time zones and daylight saving are outside the model: every Date the    *)
(* code builds is a local midnight.                                        *)
(***************************************************************************)
EXTENDS Integers, Sequences, FiniteSets, TLC

VARIABLES
    now,        \* the clock reading of line 6: [day, timeOfDay]
    dateInput,  \* the argument of the call: [type, value]
    phrase,     \* how the argument was written: its phrase class and parameters
    result,     \* the record the call returned
    pc,         \* "idle", "returned", "threw" or "returnedAgain"
    earlier,    \* the record an earlier call with the same argument returned
    resv,       \* one run of makeReservation
    plug,       \* one registration of the introduction-agent plugin
    phone       \* one call of formatPhoneForCalling

vars == <<now, dateInput, phrase, result, pc, earlier, resv, plug, phone>>

(***************************************************************************)
(* Bounds of the model.                                                    *)
(***************************************************************************)
\* first calendar year of the reference dates
RefYear == 2023
\* number of consecutive calendar years the reference dates range over
RefYears == 2
\* days on each side of a year's end at which a call is repeated
ClockWindow == 7
\* requests of one plugin registration that may await their answer at once
MaxPending == 2
\* requests one plugin registration sends
MaxRequests == 2

(***************************************************************************)
(* JavaScript strings.                                                     *)
(***************************************************************************)
CharAt(s, i) == SubSeq(s, i, i)

Substring(s, from) == SubSeq(s, from, Len(s))

StartsWith(s, p) == Len(s) >= Len(p) /\ SubSeq(s, 1, Len(p)) = p

UpperLetters == "ABCDEFGHIJKLMNOPQRSTUVWXYZ"

LowerLetters == "abcdefghijklmnopqrstuvwxyz"

Digits == "0123456789"

\* the white space of \s and of String.prototype.trim
IsWhitespace(c) == c \in {" ", "\t", "\n"}

IsDigit(c) == \E i \in 1..Len(Digits) : CharAt(Digits, i) = c

AllDigits(s) == \A i \in 1..Len(s) : IsDigit(CharAt(s, i))

LowerChar(c) ==
    IF \E i \in 1..Len(UpperLetters) : CharAt(UpperLetters, i) = c
    THEN CharAt(LowerLetters, CHOOSE i \in 1..Len(UpperLetters) : CharAt(UpperLetters, i) = c)
    ELSE c

RECURSIVE toLowerCase(_)
toLowerCase(s) ==
    IF s = "" THEN "" ELSE LowerChar(CharAt(s, 1)) \o toLowerCase(Substring(s, 2))

RECURSIVE TrimStart(_)
TrimStart(s) ==
    IF s # "" /\ IsWhitespace(CharAt(s, 1)) THEN TrimStart(Substring(s, 2)) ELSE s

RECURSIVE TrimEnd(_)
TrimEnd(s) ==
    IF s # "" /\ IsWhitespace(CharAt(s, Len(s)))
    THEN TrimEnd(SubSeq(s, 1, Len(s) - 1))
    ELSE s

trim(s) == TrimEnd(TrimStart(s))

DigitValue(c) == (CHOOSE i \in 1..Len(Digits) : CharAt(Digits, i) = c) - 1

\* parseInt of a string of decimal digits
RECURSIVE parseInt(_)
parseInt(s) ==
    IF s = "" THEN 0
    ELSE 10 * parseInt(SubSeq(s, 1, Len(s) - 1)) + DigitValue(CharAt(s, Len(s)))

\* the decimal string of a non-negative integer (number + string)
RECURSIVE NumberToString(_)
NumberToString(n) ==
    IF n < 10 THEN CharAt(Digits, n + 1)
    ELSE NumberToString(n \div 10) \o CharAt(Digits, (n % 10) + 1)

\* the remainder operator of JavaScript: the sign of the dividend
JsRemainder(a, b) == IF a >= 0 THEN a % b ELSE -((-a) % b)

\* array.indexOf(x), 0-based, for an x the array holds
IndexOf(array, x) == (CHOOSE i \in 1..Len(array) : array[i] = x) - 1

(***************************************************************************)
(* JavaScript Dates at local midnight, as day numbers.                     *)
(***************************************************************************)
IsLeapYear(y) == (y % 4 = 0 /\ y % 100 # 0) \/ y % 400 = 0

CumulativeDays == <<0, 31, 59, 90, 120, 151, 181, 212, 243, 273, 304, 334, 365>>

\* days of year y before its month m (0..12)
DaysBeforeMonth(y, m) ==
    CumulativeDays[m + 1] + (IF m > 1 /\ IsLeapYear(y) THEN 1 ELSE 0)

\* days before 1 January of year y
DaysBeforeYear(y) ==
    365 * (y - 1) + ((y - 1) \div 4) - ((y - 1) \div 100) + ((y - 1) \div 400)

\* new Date(year, month, day): month and day of any size carry over
NewDate(year, month, day) ==
    LET y == year + (month \div 12)
        m == month % 12
    IN DaysBeforeYear(y) + DaysBeforeMonth(y, m) + day

\* the year of day t: one of the three years about t / 365.2425
getFullYear(t) ==
    LET y0 == (400 * t) \div 146097
    IN CHOOSE y \in y0..(y0 + 2) : DaysBeforeYear(y) < t /\ t <= DaysBeforeYear(y + 1)

\* the month of the n-th day of year y: one of the two months about n / 32
MonthOfYearDay(y, n) ==
    LET m0 == n \div 32
    IN IF m0 < 11 /\ n > DaysBeforeMonth(y, m0 + 1) THEN m0 + 1 ELSE m0

getMonth(t) ==
    LET y == getFullYear(t)
    IN MonthOfYearDay(y, t - DaysBeforeYear(y))

getDate(t) ==
    LET y == getFullYear(t)
        n == t - DaysBeforeYear(y)
    IN n - DaysBeforeMonth(y, MonthOfYearDay(y, n))

getDay(t) == t % 7

setDate(t, day) == NewDate(getFullYear(t), getMonth(t), day)

setFullYear(t, year) == NewDate(year, getMonth(t), getDate(t))

Null == <<>>

Some(v) == <<v>>

(***************************************************************************)
(* parseReservationDate, vapi-caller.mjs lines 5-65.                       *)
(***************************************************************************)
days == <<"sunday", "monday", "tuesday", "wednesday", "thursday", "friday", "saturday">>

dayNames == <<"Sunday", "Monday", "Tuesday", "Wednesday", "Thursday", "Friday", "Saturday">>

monthNames ==
    <<"January", "February", "March", "April", "May", "June", "July", "August",
      "September", "October", "November", "December">>

\* the keys of the months object, in the order of the alternation of line 41
MonthWords ==
    <<"january", "february", "march", "april", "may", "june", "july", "august",
      "september", "october", "november", "december", "jan", "feb", "mar", "apr",
      "jun", "jul", "aug", "sep", "sept", "oct", "nov", "dec">>

\* the values of the months object, key by key
MonthValues ==
    <<0, 1, 2, 3, 4, 5, 6, 7, 8, 9, 10, 11, 0, 1, 2, 3, 5, 6, 7, 8, 8, 9, 10, 11>>

\* months[name]: the 0-based month of a key
months(name) == MonthValues[CHOOSE k \in 1..Len(MonthWords) : MonthWords[k] = name]

IsWeekdayWord(s) == \E i \in 1..Len(days) : days[i] = s

\* /^(next\s+)?(sunday|...|saturday)$/i, and the groups of the match of line 21
WeekdayPattern(input) ==
    LET hasNext == StartsWith(input, "next") /\ Len(input) > 4 /\ IsWhitespace(CharAt(input, 5))
        rest == IF hasNext THEN TrimStart(Substring(input, 5)) ELSE input
    IN [matched |-> IsWeekdayWord(rest), isNext |-> hasNext, day |-> rest]

\* /^this\s+(sunday|...|saturday)$/i
ThisWeekdayPattern(input) ==
    LET hasThis == StartsWith(input, "this") /\ Len(input) > 4 /\ IsWhitespace(CharAt(input, 5))
        rest == IF hasThis THEN TrimStart(Substring(input, 5)) ELSE ""
    IN [matched |-> hasThis /\ IsWeekdayWord(rest), day |-> rest]

\* (\d{1,2})(st|nd|rd|th)?$ : the length of the digit group, 0 when there is no match
DayGroupLength(r) ==
    LET fits(k) == /\ k <= Len(r)
                   /\ AllDigits(SubSeq(r, 1, k))
                   /\ Substring(r, k + 1) \in {"", "st", "nd", "rd", "th"}
    IN IF fits(2) THEN 2 ELSE IF fits(1) THEN 1 ELSE 0

\* /^(january|...|dec)\s+(\d{1,2})(st|nd|rd|th)?$/i
MonthDayPattern(input) ==
    LET fits(k) ==
            LET name == MonthWords[k]
            IN /\ StartsWith(input, name)
               /\ Len(input) > Len(name)
               /\ IsWhitespace(CharAt(input, Len(name) + 1))
               /\ DayGroupLength(TrimStart(Substring(input, Len(name) + 1))) > 0
    IN IF \E k \in 1..Len(MonthWords) : fits(k)
       THEN LET k == CHOOSE j \in 1..Len(MonthWords) : fits(j)
                r == TrimStart(Substring(input, Len(MonthWords[k]) + 1))
            IN [matched |-> TRUE, name |-> MonthWords[k], day |-> SubSeq(r, 1, DayGroupLength(r))]
       ELSE [matched |-> FALSE, name |-> "", day |-> ""]

\* the pattern of line 48 without its end anchor: /^(\d{1,2})[\/\-](\d{1,2})/
NumericPattern_NoEndAnchor(input) ==
    LET fits(k) == /\ Len(input) >= k + 2
                   /\ AllDigits(SubSeq(input, 1, k))
                   /\ CharAt(input, k + 1) \in {"/", "-"}
                   /\ IsDigit(CharAt(input, k + 2))
    IN IF \E k \in 1..2 : fits(k)
       THEN LET k == CHOOSE j \in 1..2 : fits(j)
                n == IF Len(input) >= k + 3 /\ IsDigit(CharAt(input, k + 3)) THEN 2 ELSE 1
            IN [matched |-> TRUE, month |-> SubSeq(input, 1, k),
                day |-> SubSeq(input, k + 2, k + 1 + n)]
       ELSE [matched |-> FALSE, month |-> "", day |-> ""]

\* /^(\d{1,2})[\/\-](\d{1,2})$/
NumericPattern(input) ==
    LET fits(k) == /\ Len(input) \in {k + 2, k + 3}
                   /\ AllDigits(SubSeq(input, 1, k))
                   /\ CharAt(input, k + 1) \in {"/", "-"}
                   /\ AllDigits(Substring(input, k + 2))
    IN IF \E k \in 1..2 : fits(k)
       THEN LET k == CHOOSE j \in 1..2 : fits(j)
            IN [matched |-> TRUE, month |-> SubSeq(input, 1, k), day |-> Substring(input, k + 2)]
       ELSE [matched |-> FALSE, month |-> "", day |-> ""]

\* lines 26-27 without line 28
WeekdayDaysToAdd_SingleWeek(targetDay, currentDay, isNext) ==
    LET d0 == targetDay - currentDay
    IN IF d0 <= 0 \/ isNext THEN d0 + 7 ELSE d0

\* lines 26-28 with < for the <= of line 27
WeekdayDaysToAdd_AllowsToday(targetDay, currentDay, isNext) ==
    LET d0 == targetDay - currentDay
        d1 == IF d0 < 0 \/ isNext THEN d0 + 7 ELSE d0
    IN IF isNext /\ d1 <= 7 THEN d1 + 7 ELSE d1

\* lines 26-28 with < for the <= of line 28
WeekdayDaysToAdd_StrictSecondWeek(targetDay, currentDay, isNext) ==
    LET d0 == targetDay - currentDay
        d1 == IF d0 <= 0 \/ isNext THEN d0 + 7 ELSE d0
    IN IF isNext /\ d1 < 7 THEN d1 + 7 ELSE d1

\* lines 26-28: the days to add for "[next] <weekday>"
WeekdayDaysToAdd(targetDay, currentDay, isNext) ==
    LET d0 == targetDay - currentDay
        d1 == IF d0 <= 0 \/ isNext THEN d0 + 7 ELSE d0
    IN IF isNext /\ d1 <= 7 THEN d1 + 7 ELSE d1

\* lines 36-37 with <= for the < of line 37
ThisWeekdayDaysToAdd_SkipsToday(targetDay, currentDay) ==
    LET d0 == targetDay - currentDay
    IN IF d0 <= 0 THEN d0 + 7 ELSE d0

\* lines 36-37: the days to add for "this <weekday>"
ThisWeekdayDaysToAdd(targetDay, currentDay) ==
    LET d0 == targetDay - currentDay
    IN IF d0 < 0 THEN d0 + 7 ELSE d0

\* lines 45-46 and 52-53: the month and day in the clock's year, rolled to the
\* next year when before today
MonthDayDate(year, month, day, today) ==
    LET targetDate == NewDate(year, month, day)
    IN IF targetDate < today
       THEN setFullYear(targetDate, getFullYear(targetDate) + 1)
       ELSE targetDate

\* setDate with getDay() for getDate()
AddDays_FromWeekday(today, n) == setDate(today, getDay(today) + n)

\* lines 14-15, 17-18, 24-29 and 34-38: a copy of today moved n days on
AddDays(today, n) == setDate(today, getDate(today) + n)

\* line 7 rounding the clock reading to the nearest midnight
Today_RoundsUp(clock) ==
    NewDate(getFullYear(clock.day), getMonth(clock.day),
            getDate(clock.day) + (IF clock.timeOfDay >= 720 THEN 1 ELSE 0))

\* line 7: the clock reading cut to its calendar day
Today(clock) == NewDate(getFullYear(clock.day), getMonth(clock.day), getDate(clock.day))

\* lines 8-55: targetDate, Null when no phrase class matched
TargetDate(input, clock) ==
    LET today == Today(clock)
        wd == WeekdayPattern(input)
        tw == ThisWeekdayPattern(input)
        md == MonthDayPattern(input)
        nm == NumericPattern(input)
        year == getFullYear(clock.day)
    IN CASE input = "today" -> Some(today)
         [] input = "tomorrow" -> Some(AddDays(today, 1))
         [] input = "day after tomorrow" -> Some(AddDays(today, 2))
         [] OTHER ->
            IF wd.matched
            THEN Some(AddDays(today,
                        WeekdayDaysToAdd(IndexOf(days, toLowerCase(wd.day)), getDay(today), wd.isNext)))
            ELSE IF tw.matched
            THEN Some(AddDays(today,
                        ThisWeekdayDaysToAdd(IndexOf(days, toLowerCase(tw.day)), getDay(today))))
            ELSE LET afterMonthDay ==
                         IF md.matched
                         THEN Some(MonthDayDate(year, months(toLowerCase(md.name)), parseInt(md.day), today))
                         ELSE Null
                 IN IF nm.matched
                    THEN Some(MonthDayDate(year, parseInt(nm.month) - 1, parseInt(nm.day), today))
                    ELSE afterMonthDay

\* line 62 with a remainder that takes the sign of the divisor
getOrdinal_FlooredModulo(n) ==
    LET s == <<"th", "st", "nd", "rd">>
        v == n % 100
        at(i) == IF i \in 0..3 THEN s[i + 1] ELSE ""
        first == at((v - 20) % 10)
        second == at(v)
    IN NumberToString(n) \o (IF first # "" THEN first ELSE IF second # "" THEN second ELSE at(0))

\* line 62; s[i] of an index the array lacks is undefined, which is falsy
getOrdinal(n) ==
    LET s == <<"th", "st", "nd", "rd">>
        v == JsRemainder(n, 100)
        at(i) == IF i \in 0..3 THEN s[i + 1] ELSE ""
        first == at(JsRemainder(v - 20, 10))
        second == at(v)
    IN NumberToString(n) \o (IF first # "" THEN first ELSE IF second # "" THEN second ELSE at(0))

\* lines 59-63 with getDay() for the getDate() of line 61
FormatDate_WeekdayAsDay(targetDate) ==
    dayNames[getDay(targetDate) + 1] \o ", " \o monthNames[getMonth(targetDate) + 1]
        \o " " \o getOrdinal(getDay(targetDate))

\* lines 59-63
FormatDate(targetDate) ==
    dayNames[getDay(targetDate) + 1] \o ", " \o monthNames[getMonth(targetDate) + 1]
        \o " " \o getOrdinal(getDate(targetDate))

\* line 56 with the matched text for the argument in formatted
Fallback_Normalized(text) ==
    [original |-> text, formatted |-> trim(toLowerCase(text)), date |-> Null,
     dayOfWeek |-> Null, isValid |-> FALSE]

\* line 56: the fallback record
Fallback(text) ==
    [original |-> text, formatted |-> text, date |-> Null, dayOfWeek |-> Null, isValid |-> FALSE]

\* lines 5-65 without the trim() of line 9
parseReservationDate_NoTrim(text, clock) ==
    LET input == toLowerCase(text)
        targetDate == TargetDate(input, clock)
    IN IF targetDate = Null
       THEN Fallback(text)
       ELSE [original |-> text,
             formatted |-> FormatDate(targetDate[1]),
             date |-> targetDate,
             dayOfWeek |-> Some(dayNames[getDay(targetDate[1]) + 1]),
             isValid |-> TRUE]

\* lines 5-65, for a string argument
parseReservationDate(text, clock) ==
    LET input == trim(toLowerCase(text))
        targetDate == TargetDate(input, clock)
    IN IF targetDate = Null
       THEN Fallback(text)
       ELSE [original |-> text,
             formatted |-> FormatDate(targetDate[1]),
             date |-> targetDate,
             dayOfWeek |-> Some(dayNames[getDay(targetDate[1]) + 1]),
             isValid |-> TRUE]

(***************************************************************************)
(* The arguments of the calls: the phrases of each class, written out from *)
(* the class's parameters.  A phrase records its class, and the weekday    *)
(* (0 = Sunday), month (1 = January) and day it names, 0 where it names    *)
(* none.                                                                   *)
(***************************************************************************)
Phrase(text, class, weekday, month, day) ==
    [text |-> text, class |-> class, weekday |-> weekday, month |-> month, day |-> day]

\* the days of the month the phrases name
PhraseDays == {0, 5, 29, 31}

\* the numeric months the phrases name
PhraseMonths == {0, 1, 2, 3, 12, 13}

LiteralPhrases ==
    { Phrase("today", "today", 0, 0, 0),
      Phrase("tomorrow", "tomorrow", 0, 0, 0),
      Phrase("day after tomorrow", "dayAfterTomorrow", 0, 0, 0),
      Phrase("  Today", "today", 0, 0, 0),
      Phrase("TOMORROW\n", "tomorrow", 0, 0, 0),
      Phrase("\tDay After Tomorrow ", "dayAfterTomorrow", 0, 0, 0) }

WeekdayPhrases ==
    { Phrase(days[w + 1], "weekday", w, 0, 0) : w \in 0..6 }
        \cup { Phrase(dayNames[w + 1] \o " ", "weekday", w, 0, 0) : w \in 0..6 }

NextWeekdayPhrases ==
    { Phrase("next " \o days[w + 1], "nextWeekday", w, 0, 0) : w \in 0..6 }
        \cup { Phrase("Next \t" \o dayNames[w + 1], "nextWeekday", w, 0, 0) : w \in 0..6 }

ThisWeekdayPhrases ==
    { Phrase("this " \o days[w + 1], "thisWeekday", w, 0, 0) : w \in 0..6 }
        \cup { Phrase(" This  " \o dayNames[w + 1], "thisWeekday", w, 0, 0) : w \in 0..6 }

MonthDayPhrases ==
    { Phrase(monthNames[m] \o " " \o NumberToString(d), "monthDay", 0, m, d) :
          m \in 1..12, d \in PhraseDays }
        \cup { Phrase(MonthWords[k] \o " 30th", "monthDay", 0, MonthValues[k] + 1, 30) :
                   k \in 13..Len(MonthWords) }
        \cup { Phrase("january 1st", "monthDay", 0, 1, 1),
               Phrase("March  2nd", "monthDay", 0, 3, 2),
               Phrase("april\t3rd ", "monthDay", 0, 4, 3),
               Phrase("MAY 05", "monthDay", 0, 5, 5),
               Phrase("december 99", "monthDay", 0, 12, 99) }

NumericPhrases ==
    { Phrase(NumberToString(m) \o "/" \o NumberToString(d), "numeric", 0, m, d) :
          m \in PhraseMonths, d \in PhraseDays }
        \cup { Phrase("3/4", "numeric", 0, 3, 4),
               Phrase("03-04", "numeric", 0, 3, 4),
               Phrase("12-31", "numeric", 0, 12, 31),
               Phrase(" 1-1 ", "numeric", 0, 1, 1),
               Phrase("99/99", "numeric", 0, 99, 99) }

UnrecognizedTexts ==
    { "", " ", "whenever works", "Whenever Works ", "next", "this", "next week",
      "nextmonday", "monday next", "next this monday", "todayy", "to day",
      "the day after tomorrow", "friday the 13th", "mon", "january", "january5",
      "may 123", "may 5xx", "5 may", "sept. 5", "1/2/3", "123/4", "1 / 2", "5/", "13",
      "2024-03-15" }

UnrecognizedPhrases == { Phrase(t, "unrecognized", 0, 0, 0) : t \in UnrecognizedTexts }

Phrases ==
    LiteralPhrases \cup WeekdayPhrases \cup NextWeekdayPhrases \cup ThisWeekdayPhrases
        \cup MonthDayPhrases \cup NumericPhrases \cup UnrecognizedPhrases

\* the value of options.date when the caller gave none
Undefined == [type |-> "undefined", value |-> ""]

String(text) == [type |-> "string", value |-> text]

NoPhrase == Phrase("", "none", 0, 0, 0)

NoResult == Fallback("")

\* the times of day of the clock readings, in minutes after midnight
TimesOfDay == {0}

\* the clock readings: every day of the years RefYear .. RefYear + RefYears - 1
Clocks ==
    [day : NewDate(RefYear, 0, 1)..NewDate(RefYear + RefYears, 0, 0), timeOfDay : TimesOfDay]

\* times of day at which a call is repeated: midnight, either side of noon and
\* the last minute of the day
RepeatTimes == {0, 719, 720, 1439}

\* the clock readings of the repeated calls: the days around the end of RefYear
RepeatClocks ==
    [day : (NewDate(RefYear + 1, 0, 1) - ClockWindow)..(NewDate(RefYear + 1, 0, 0) + ClockWindow),
     timeOfDay : RepeatTimes]

(***************************************************************************)
(* formatPhoneForCalling and findRestaurant, restaurant-lookup.mjs;        *)
(* makeReservationCall, vapi-caller.mjs lines 67-127; makeReservation,     *)
(* make-reservation.mjs lines 32-122.  A string that may be undefined is   *)
(* <<>> or <<s>>.  An async function is cut at its awaits: each operator   *)
(* below is the code that runs from one await to the next.                 *)
(***************************************************************************)
\* a string or undefined used as a condition
Truthy(x) == x # Null /\ x[1] # ""

\* a || b
OrElse(a, b) == IF Truthy(a) THEN a ELSE b

\* the outcome of a call that threw an Error with this message
Thrown(message) == [threw |-> TRUE, error |-> message, value |-> Null]

\* the outcome of a call that returned v
Returns(v) == [threw |-> FALSE, error |-> "", value |-> Some(v)]

\* restaurant-lookup.mjs line 73: replace(/[^\d+]/g, '')
RECURSIVE Cleaned(_)
Cleaned(s) ==
    IF s = "" THEN ""
    ELSE LET c == CharAt(s, 1)
         IN (IF IsDigit(c) \/ c = "+" THEN c ELSE "") \o Cleaned(Substring(s, 2))

\* restaurant-lookup.mjs lines 67-88 without the startsWith('1') of line 80
formatPhoneForCalling_AnyEleven(phoneNumber) ==
    IF ~Truthy(phoneNumber)
    THEN Thrown("No phone number provided")
    ELSE LET cleaned == Cleaned(phoneNumber[1])
         IN IF StartsWith(cleaned, "+") THEN Returns(cleaned)
            ELSE IF Len(cleaned) = 10 THEN Returns("+1" \o cleaned)
            ELSE IF Len(cleaned) = 11 THEN Returns("+" \o cleaned)
            ELSE Thrown("Invalid phone number format: " \o phoneNumber[1])

\* restaurant-lookup.mjs lines 67-88
formatPhoneForCalling(phoneNumber) ==
    IF ~Truthy(phoneNumber)
    THEN Thrown("No phone number provided")
    ELSE LET cleaned == Cleaned(phoneNumber[1])
         IN IF StartsWith(cleaned, "+") THEN Returns(cleaned)
            ELSE IF Len(cleaned) = 10 THEN Returns("+1" \o cleaned)
            ELSE IF Len(cleaned) = 11 /\ StartsWith(cleaned, "1") THEN Returns("+" \o cleaned)
            ELSE Thrown("Invalid phone number format: " \o phoneNumber[1])

\* formatPhoneForCalling before it is called
PhoneIdle == [pc |-> "idle", input |-> Null, outcome |-> Returns("")]

\* the restaurant of the run
RestaurantName == "Nobu"

\* make-reservation.mjs line 35: the default of options.location
Location == "near me"

\* a request to a remote service
Request(api, arg, date) == [api |-> api, arg |-> arg, date |-> date]

\* restaurant-lookup.mjs lines 14-22: the text search request
SearchRequest == Request("textsearch", RestaurantName \o " " \o Location, "")

\* restaurant-lookup.mjs lines 37-42: the place details request
DetailsRequest(placeId) == Request("details", placeId, "")

\* restaurant-lookup.mjs lines 22-34 taking the last result for the first
FindRestaurantAfterSearch_LastResult(searchResponse) ==
    IF searchResponse.rejected
    THEN Thrown("fetch failed")
    ELSE IF ~searchResponse.ok \/ searchResponse.status # "OK"
    THEN Thrown("Failed to find restaurant: " \o searchResponse.status \o " - Unknown error")
    ELSE IF searchResponse.results = Null \/ Len(searchResponse.results[1]) = 0
    THEN Thrown("No restaurants found matching \"" \o RestaurantName \o "\" in " \o Location)
    ELSE Returns(searchResponse.results[1][Len(searchResponse.results[1])])

\* restaurant-lookup.mjs lines 22-34: from the search response to the top result
FindRestaurantAfterSearch(searchResponse) ==
    IF searchResponse.rejected
    THEN Thrown("fetch failed")
    ELSE IF ~searchResponse.ok \/ searchResponse.status # "OK"
    THEN Thrown("Failed to find restaurant: " \o searchResponse.status \o " - Unknown error")
    ELSE IF searchResponse.results = Null \/ Len(searchResponse.results[1]) = 0
    THEN Thrown("No restaurants found matching \"" \o RestaurantName \o "\" in " \o Location)
    ELSE Returns(searchResponse.results[1][1])

\* restaurant-lookup.mjs lines 42-59: from the details response to the record
FindRestaurantAfterDetails(placeId, detailsResponse) ==
    IF detailsResponse.rejected
    THEN Thrown("fetch failed")
    ELSE IF ~detailsResponse.ok \/ detailsResponse.status # "OK"
    THEN Thrown("Failed to get restaurant details: " \o detailsResponse.status)
    ELSE Returns([name |-> detailsResponse.name,
                  phoneNumber |-> OrElse(detailsResponse.international_phone_number,
                                         detailsResponse.formatted_phone_number),
                  placeId |-> placeId])

\* vapi-caller.mjs lines 68-118 with the raw date text for dateForCall
MakeReservationCallRequest_RawDate(phoneNumber, date, clock) ==
    IF date = Null
    THEN Thrown("Cannot read properties of undefined (reading 'toLowerCase')")
    ELSE Returns(Request("vapi", phoneNumber, date[1]))

\* vapi-caller.mjs lines 68-118: up to the request; options.date that is no
\* string makes line 9 throw a TypeError
MakeReservationCallRequest(phoneNumber, date, clock) ==
    IF date = Null
    THEN Thrown("Cannot read properties of undefined (reading 'toLowerCase')")
    ELSE LET parsedDate == parseReservationDate(date[1], clock)
             dateForCall == IF parsedDate.isValid THEN parsedDate.formatted ELSE date[1]
         IN Returns(Request("vapi", phoneNumber, dateForCall))

\* vapi-caller.mjs lines 120-126: from the response to the call result
MakeReservationCallAfter(request, date, clock, response) ==
    IF response.rejected
    THEN Thrown("fetch failed")
    ELSE IF ~response.ok
    THEN Thrown("Vapi API error: " \o response.status \o " - Unknown error")
    ELSE Returns([callId |-> response.id,
                  status |-> response.callStatus,
                  phoneNumber |-> request.arg,
                  restaurantName |-> RestaurantName,
                  reservationDetails |->
                      [date |-> request.date,
                       originalDate |-> date[1],
                       dayOfWeek |-> parseReservationDate(date[1], clock).dayOfWeek]])

\* makeReservation before its first step
ResvIdle ==
    [pc |-> "idle", step |-> "none", date |-> Null, requests |-> <<>>,
     searchResponse |-> Null, detailsResponse |-> Null,
     placeId |-> Null, restaurant |-> Null, formattedPhone |-> Null,
     callResult |-> Null, error |-> Null, value |-> Null]

\* a throw out of makeReservation in the named step
ResvThrows(r, step, message) ==
    [r EXCEPT !.pc = "threw", !.step = step, !.error = Some(message)]

\* make-reservation.mjs lines 32-50 and restaurant-lookup.mjs lines 14-22
MakeReservationStart(r, date) ==
    [r EXCEPT !.pc = "search", !.step = "lookup", !.date = date,
              !.requests = Append(@, SearchRequest)]

\* restaurant-lookup.mjs lines 22-42, and make-reservation.mjs lines 57-59 on
\* a throw
MakeReservationAfterSearch(r, searchResponse) ==
    LET place == FindRestaurantAfterSearch(searchResponse)
        answered == [r EXCEPT !.searchResponse = Some(searchResponse)]
    IN IF place.threw
       THEN ResvThrows(answered, "lookup", place.error)
       ELSE [answered EXCEPT !.pc = "details", !.placeId = place.value,
                             !.requests = Append(@, DetailsRequest(place.value[1]))]

\* make-reservation.mjs lines 62-88 with the call made before the number is
\* formatted
MakeReservationCallStep_Unformatted(r, clock) ==
    LET phoneNumber == r.restaurant[1].phoneNumber
        formattedPhone == formatPhoneForCalling(phoneNumber)
        request == MakeReservationCallRequest(
                       IF Truthy(phoneNumber) THEN phoneNumber[1] ELSE "", r.date, clock)
    IN IF request.threw
       THEN ResvThrows(r, "call", request.error)
       ELSE IF ~Truthy(phoneNumber)
       THEN ResvThrows([r EXCEPT !.requests = Append(@, request.value[1])],
                       "presence", "Restaurant phone number not available")
       ELSE IF formattedPhone.threw
       THEN ResvThrows([r EXCEPT !.requests = Append(@, request.value[1])],
                       "format", formattedPhone.error)
       ELSE [r EXCEPT !.pc = "call", !.step = "call",
                      !.formattedPhone = formattedPhone.value,
                      !.requests = Append(@, request.value[1])]

\* make-reservation.mjs lines 62-88: the presence check, the formatting and
\* the start of the Vapi call, for the restaurant the lookup returned
MakeReservationCallStep(r, clock) ==
    LET phoneNumber == r.restaurant[1].phoneNumber
        formattedPhone == formatPhoneForCalling(phoneNumber)
    IN IF ~Truthy(phoneNumber)
       THEN ResvThrows(r, "presence", "Restaurant phone number not available")
       ELSE IF formattedPhone.threw
       THEN ResvThrows(r, "format", formattedPhone.error)
       ELSE LET request ==
                    MakeReservationCallRequest(formattedPhone.value[1], r.date, clock)
            IN IF request.threw
               THEN ResvThrows([r EXCEPT !.formattedPhone = formattedPhone.value],
                               "call", request.error)
               ELSE [r EXCEPT !.pc = "call", !.step = "call",
                              !.formattedPhone = formattedPhone.value,
                              !.requests = Append(@, request.value[1])]

\* restaurant-lookup.mjs lines 42-59 and make-reservation.mjs lines 50-88
MakeReservationAfterDetails(r, detailsResponse, clock) ==
    LET restaurant == FindRestaurantAfterDetails(r.placeId[1], detailsResponse)
        answered == [r EXCEPT !.detailsResponse = Some(detailsResponse)]
    IN IF restaurant.threw
       THEN ResvThrows(answered, "lookup", restaurant.error)
       ELSE MakeReservationCallStep([answered EXCEPT !.restaurant = restaurant.value], clock)

\* vapi-caller.mjs lines 120-126 and make-reservation.mjs lines 90-121
MakeReservationAfterCall(r, response, clock) ==
    LET request == r.requests[Len(r.requests)]
        callResult == MakeReservationCallAfter(request, r.date, clock, response)
    IN IF callResult.threw
       THEN ResvThrows(r, "call", callResult.error)
       ELSE [r EXCEPT !.pc = "returned",
                      !.callResult = callResult.value,
                      !.value = Some([success |-> TRUE,
                                      restaurant |-> [name |-> r.restaurant[1].name,
                                                      phone |-> r.restaurant[1].phoneNumber],
                                      call |-> [callId |-> callResult.value[1].callId,
                                                status |-> callResult.value[1].status,
                                                phoneNumber |-> r.formattedPhone[1]],
                                      reservation |-> [date |-> r.date]])]

(***************************************************************************)
(* The introduction-agent plugin: config.ts and vapi-client.ts, and        *)
(* register of extensions/introduction-agent/index.ts.  Numbers of the     *)
(* configuration are held in hundredths, so that 0.35 is 35 and 300 is     *)
(* 30000.                                                                  *)
(***************************************************************************)
\* config.ts lines 7-49: the keys of the schema
ConfigKeys ==
    {"enabled", "vapiApiKey", "vapiPhoneNumberId", "defaultToNumber", "ownerName",
     "ownerPhone", "ownerEmail", "voiceId", "voiceStability", "voiceSimilarityBoost",
     "useSpeakerBoost", "maxDurationSeconds", "responseDelaySeconds",
     "silenceTimeoutSeconds"}

\* the object {}
EmptyObject == [k \in ConfigKeys |-> Null]

\* config.ts lines 7-49: the .default() of each key, <<>> for an optional key
SchemaDefaults ==
    [enabled |-> Some(TRUE),
     vapiApiKey |-> Null,
     vapiPhoneNumberId |-> Null,
     defaultToNumber |-> Null,
     ownerName |-> Some("Angel"),
     ownerPhone |-> Some("+18326166714"),
     ownerEmail |-> Some("u.onuoha7@gmail.com"),
     voiceId |-> Some("LXYjKEgGhXKDA2YFbd8f"),
     voiceStability |-> Some(35),
     voiceSimilarityBoost |-> Some(80),
     useSpeakerBoost |-> Some(TRUE),
     maxDurationSeconds |-> Some(30000),
     responseDelaySeconds |-> Some(100),
     silenceTimeoutSeconds |-> Some(3000)]

\* config.ts lines 33 and 36: .min(0).max(1)
InUnitRange(x) == x = Null \/ (x[1] >= 0 /\ x[1] <= 100)

\* config.ts line 63: IntroductionAgentConfigSchema.parse(input)
SchemaParse(input) ==
    IF ~InUnitRange(input.voiceStability) \/ ~InUnitRange(input.voiceSimilarityBoost)
    THEN Thrown("ZodError")
    ELSE Returns([k \in ConfigKeys |->
                     IF k \in {"vapiApiKey", "vapiPhoneNumberId", "defaultToNumber"}
                     THEN input[k]
                     ELSE IF input[k] = Null THEN SchemaDefaults[k][1] ELSE input[k][1]])

\* config.ts lines 59-64
resolveConfig(raw) ==
    SchemaParse(IF raw.kind = "object" THEN raw.fields ELSE EmptyObject)

\* errors.join("; ")
RECURSIVE Join(_)
Join(errors) ==
    IF Len(errors) = 0 THEN ""
    ELSE IF Len(errors) = 1 THEN errors[1]
    ELSE errors[1] \o "; " \o Join(Tail(errors))

\* config.ts lines 69-91
validateConfig(config, env) ==
    LET vapiKey == OrElse(config.vapiApiKey, env.VAPI_API_KEY)
        errors == IF ~Truthy(vapiKey)
                  THEN <<"Missing vapiApiKey or VAPI_API_KEY env var">>
                  ELSE <<>>
    IN [valid |-> Len(errors) = 0, errors |-> errors]

\* config.ts lines 96-102
getVapiApiKey(config, env) ==
    LET key == OrElse(config.vapiApiKey, env.VAPI_API_KEY)
    IN IF ~Truthy(key) THEN Thrown("VAPI API key not configured") ELSE Returns(key[1])

\* config.ts line 54
DEFAULT_VAPI_PHONE_NUMBER_ID == "d230eeda-e422-4f76-b901-a0a6a3fc1cd5"

\* config.ts lines 107-109
getPhoneNumberId(config, env) ==
    OrElse(OrElse(config.vapiPhoneNumberId, env.VAPI_PHONE_NUMBER_ID),
           Some(DEFAULT_VAPI_PHONE_NUMBER_ID))[1]

\* vapi-client.ts lines 170-174: new VapiClient(config)
NewVapiClient(config, env) ==
    LET apiKey == getVapiApiKey(config, env)
    IN IF apiKey.threw
       THEN Thrown(apiKey.error)
       ELSE Returns([apiKey |-> apiKey.value[1],
                     phoneNumberId |-> getPhoneNumberId(config, env)])

\* prompts.ts lines 64-66; the dash of the source is written "-" here
generateFirstMessage(ownerName) ==
    "Hey! So... this is Bella, I'm " \o ownerName
        \o "'s AI assistant. Just wanted to quickly introduce myself - "
        \o ownerName \o " asked me to reach out and say hi!"

\* prompts.ts lines 71-73; the dash of the source is written "-" here
generatePersonalizedFirstMessage(ownerName, recipientName) ==
    "Hey " \o recipientName \o "! So this is Bella - I'm " \o ownerName
        \o "'s AI assistant. " \o ownerName
        \o " mentioned you, so I figured I'd call and introduce myself real quick!"

\* vapi-client.ts lines 190-193 with the recipient name looked at first
FirstMessage_NameFirst(config, recipientName, customFirstMessage) ==
    IF Truthy(recipientName)
    THEN generatePersonalizedFirstMessage(config.ownerName, recipientName[1])
    ELSE IF Truthy(customFirstMessage) THEN customFirstMessage[1]
    ELSE generateFirstMessage(config.ownerName)

\* vapi-client.ts lines 190-193
FirstMessage(config, recipientName, customFirstMessage) ==
    IF Truthy(customFirstMessage) THEN customFirstMessage[1]
    ELSE IF Truthy(recipientName)
    THEN generatePersonalizedFirstMessage(config.ownerName, recipientName[1])
    ELSE generateFirstMessage(config.ownerName)

\* vapi-client.ts lines 236-249: the request of initiateCall
CallRequest(vapiClient, config, toNumber, recipientName, customFirstMessage) ==
    [api |-> "call/phone",
     apiKey |-> vapiClient.apiKey,
     phoneNumberId |-> vapiClient.phoneNumberId,
     number |-> toNumber,
     firstMessage |-> FirstMessage(config, recipientName, customFirstMessage),
     callId |-> ""]

\* vapi-client.ts lines 280-285: the request of getCallStatus
StatusRequest(vapiClient, callId) ==
    [api |-> "call/id",
     apiKey |-> vapiClient.apiKey,
     phoneNumberId |-> vapiClient.phoneNumberId,
     number |-> "",
     firstMessage |-> "",
     callId |-> callId]

\* vapi-client.ts lines 251-267 without the throw of response.json() at line 261
InitiateCallResult_AnyOk(response) ==
    IF response.rejected
    THEN [success |-> FALSE, callId |-> Null, status |-> Null, error |-> Some("fetch failed")]
    ELSE IF ~response.ok
    THEN [success |-> FALSE, callId |-> Null, status |-> Null,
          error |-> Some("VAPI API error: " \o response.status \o " - Unknown error")]
    ELSE [success |-> TRUE, callId |-> Some(response.id), status |-> Some(response.callStatus),
          error |-> Null]

\* vapi-client.ts lines 235-273: the result of initiateCall for a response.
\* A response is rejected when fetch threw, ok as response.ok says, parsed
\* when response.json() yields an object (with the fields id and status when
\* the response is ok, without the field message when it is not); the
\* messages of the errors fetch and response.json() throw are fixed texts.
InitiateCallResult(response) ==
    IF response.rejected
    THEN [success |-> FALSE, callId |-> Null, status |-> Null, error |-> Some("fetch failed")]
    ELSE IF ~response.ok
    THEN [success |-> FALSE, callId |-> Null, status |-> Null,
          error |-> Some("VAPI API error: " \o response.status \o " - Unknown error")]
    ELSE IF ~response.parsed
    THEN [success |-> FALSE, callId |-> Null, status |-> Null,
          error |-> Some("Unexpected end of JSON input")]
    ELSE [success |-> TRUE, callId |-> Some(response.id), status |-> Some(response.callStatus),
          error |-> Null]

\* vapi-client.ts lines 287-309: the outcome of getCallStatus for a response
GetCallStatusResult(response) ==
    IF response.rejected
    THEN Thrown("fetch failed")
    ELSE IF ~response.ok
    THEN Thrown("Failed to get call status: " \o response.status)
    ELSE IF ~response.parsed
    THEN Thrown("Unexpected end of JSON input")
    ELSE Returns([id |-> response.id, status |-> response.callStatus])

\* index.ts line 173: toNumber.match(/^\+[1-9]\d{1,14}$/)
MatchesE164(toNumber) ==
    /\ Len(toNumber) >= 3
    /\ Len(toNumber) <= 16
    /\ CharAt(toNumber, 1) = "+"
    /\ IsDigit(CharAt(toNumber, 2))
    /\ CharAt(toNumber, 2) # "0"
    /\ AllDigits(Substring(toNumber, 3))

\* the entry points register installs
CallEntries == {"introduction.call", "introduction_call", "introduce"}

StatusEntries == {"introduction.status", "check_introduction_status", "introduce-status"}

Entries == CallEntries \cup StatusEntries

\* index.ts lines 205 and 255: the gateway methods, which answer with respond
GatewayEntries == {"introduction.call", "introduction.status"}

\* index.ts lines 279 and 327: the tools, which answer with a payload
ToolEntries == {"introduction_call", "check_introduction_status"}

\* the process environment without the keys of VAPI
NoEnv == [VAPI_API_KEY |-> Null, VAPI_PHONE_NUMBER_ID |-> Null]

\* the parameters of an invocation that gave none
NoParams == [to |-> Null, recipientName |-> Null, customMessage |-> Null, callId |-> Null]

\* the record of the latest step of an invocation: phase is "start" for the
\* step from the invocation to its request or its error and "answer" for the
\* step after the answer to the request; params and env are the parameters
\* given and the environment at a start; outcome is "pending" (the request
\* awaits its answer), "ok" or "error"; response and result are the answer
\* of VAPI and what initiateCall returned for it; responds holds the calls
\* of respond and payload the payload of json(...) the step made
NoStep ==
    [entry |-> "none", phase |-> "none", params |-> NoParams, env |-> NoEnv,
     toNumber |-> Null, outcome |-> "none", error |-> "", request |-> Null,
     constructed |-> FALSE, response |-> Null, result |-> Null,
     responds |-> <<>>, payload |-> Null]

\* index.ts lines 211, 236-243, 245-250, 263, 267 and 269-271: the calls of
\* respond at the end of a gateway method
Responds(entry, ok, message) ==
    IF entry \in GatewayEntries THEN <<[ok |-> ok, error |-> message]>> ELSE <<>>

\* index.ts lines 308-322 and 342-362: the payload a tool returns; callId is
\* the call id of a result that has one
Payload(entry, ok, message, callId) ==
    IF entry \in ToolEntries
    THEN Some([error |-> IF ok THEN Null ELSE Some(message), callId |-> callId])
    ELSE Null

\* the plugin before register; constructed counts the calls of new
\* VapiClient that returned, reached says that a call of getClient() has
\* passed the checks of lines 147-152, and madeByFirst that the first such
\* call made the client
PlugIdle ==
    [pc |-> "unregistered",
     raw |-> [kind |-> "undefined", fields |-> EmptyObject],
     config |-> SchemaParse(EmptyObject).value[1],
     validation |-> [valid |-> FALSE, errors |-> <<>>],
     env |-> NoEnv,
     client |-> Null,
     constructed |-> 0,
     reached |-> FALSE,
     madeByFirst |-> FALSE,
     requests |-> 0,
     pending |-> [e \in Entries |-> 0],
     last |-> NoStep]

\* index.ts lines 138-141: register
RegisterPlugin(p, raw) ==
    LET config == resolveConfig(raw)
    IN IF config.threw
       THEN [p EXCEPT !.pc = "registerThrew", !.raw = raw]
       ELSE [p EXCEPT !.pc = "registered", !.raw = raw,
                      !.config = config.value[1],
                      !.validation = validateConfig(config.value[1], p.env),
                      !.client = Null]

\* index.ts lines 146-157 without the check of lines 147-149
getClient_IgnoresEnabled(p) ==
    IF ~p.validation.valid
    THEN [threw |-> TRUE, error |-> Join(p.validation.errors), plug |-> p]
    ELSE IF p.client = Null
    THEN LET made == NewVapiClient(p.config, p.env)
         IN IF made.threw
            THEN [threw |-> TRUE, error |-> made.error,
                  plug |-> [p EXCEPT !.reached = TRUE]]
            ELSE [threw |-> FALSE, error |-> "",
                  plug |-> [p EXCEPT !.client = made.value, !.constructed = @ + 1,
                                     !.reached = TRUE,
                                     !.madeByFirst = ~p.reached]]
    ELSE [threw |-> FALSE, error |-> "", plug |-> p]

\* index.ts lines 146-157 without the test of line 153: every call makes a
\* client
getClient_AlwaysNew(p) ==
    IF ~p.config.enabled
    THEN [threw |-> TRUE, error |-> "Introduction agent is disabled", plug |-> p]
    ELSE IF ~p.validation.valid
    THEN [threw |-> TRUE, error |-> Join(p.validation.errors), plug |-> p]
    ELSE LET made == NewVapiClient(p.config, p.env)
         IN IF made.threw
            THEN [threw |-> TRUE, error |-> made.error,
                  plug |-> [p EXCEPT !.reached = TRUE]]
            ELSE [threw |-> FALSE, error |-> "",
                  plug |-> [p EXCEPT !.client = made.value, !.constructed = @ + 1,
                                     !.reached = TRUE,
                                     !.madeByFirst = ~p.reached]]

\* index.ts lines 146-157: the outcome and the plugin after getClient()
getClient(p) ==
    IF ~p.config.enabled
    THEN [threw |-> TRUE, error |-> "Introduction agent is disabled", plug |-> p]
    ELSE IF ~p.validation.valid
    THEN [threw |-> TRUE, error |-> Join(p.validation.errors), plug |-> p]
    ELSE IF p.client = Null
    THEN LET made == NewVapiClient(p.config, p.env)
         IN IF made.threw
            THEN [threw |-> TRUE, error |-> made.error,
                  plug |-> [p EXCEPT !.reached = TRUE]]
            ELSE [threw |-> FALSE, error |-> "",
                  plug |-> [p EXCEPT !.client = made.value, !.constructed = @ + 1,
                                     !.reached = TRUE,
                                     !.madeByFirst = ~p.reached]]
    ELSE [threw |-> FALSE, error |-> "", plug |-> p]

\* an invocation that ended with an error
StepFails(p, entry, params, toNumber, message) ==
    [p EXCEPT !.last = [entry |-> entry, phase |-> "start", params |-> params,
                        env |-> p.env, toNumber |-> toNumber,
                        outcome |-> "error", error |-> message, request |-> Null,
                        constructed |-> FALSE, response |-> Null, result |-> Null,
                        responds |-> Responds(entry, FALSE, message),
                        payload |-> Payload(entry, FALSE, message, Null)]]

\* an invocation that sent a request and awaits its answer; q is the plugin
\* after getClient()
StepRequests(p, q, entry, params, toNumber, request) ==
    [q EXCEPT !.requests = @ + 1,
              !.pending[entry] = @ + 1,
              !.last = [entry |-> entry, phase |-> "start", params |-> params,
                        env |-> p.env, toNumber |-> toNumber,
                        outcome |-> "pending", error |-> "", request |-> Some(request),
                        constructed |-> q.constructed > p.constructed,
                        response |-> Null, result |-> Null,
                        responds |-> <<>>, payload |-> Null]]

\* index.ts lines 162-191 without the check of line 173
initiateIntroductionCall_Unchecked(p, entry, params) ==
    LET toNumber == OrElse(params.to, p.config.defaultToNumber)
        got == getClient(p)
    IN IF ~Truthy(toNumber)
       THEN StepFails(p, entry, params, toNumber,
                      "Phone number is required (no default configured)")
       ELSE IF got.threw
       THEN StepFails(got.plug, entry, params, toNumber, got.error)
       ELSE StepRequests(p, got.plug, entry, params, toNumber,
                         CallRequest(got.plug.client[1], p.config, toNumber[1],
                                     params.recipientName, params.customMessage))

\* index.ts lines 162-191: initiateIntroductionCall up to the request, with
\* the catch of the entry point that called it
initiateIntroductionCall(p, entry, params) ==
    LET toNumber == OrElse(params.to, p.config.defaultToNumber)
        got == getClient(p)
    IN IF ~Truthy(toNumber)
       THEN StepFails(p, entry, params, toNumber,
                      "Phone number is required (no default configured)")
       ELSE IF ~MatchesE164(toNumber[1])
       THEN StepFails(p, entry, params, toNumber,
                      "Phone number must be in E.164 format (e.g., +15551234567)")
       ELSE IF got.threw
       THEN StepFails(got.plug, entry, params, toNumber, got.error)
       ELSE StepRequests(p, got.plug, entry, params, toNumber,
                         CallRequest(got.plug.client[1], p.config, toNumber[1],
                                     params.recipientName, params.customMessage))

\* index.ts lines 199-202: checkCallStatus up to the request, with the catch
\* of the entry point that called it
checkCallStatus(p, entry, params, callId) ==
    LET got == getClient(p)
    IN IF got.threw
       THEN StepFails(got.plug, entry, params, Null, got.error)
       ELSE StepRequests(p, got.plug, entry, params, Null,
                         StatusRequest(got.plug.client[1], callId))

\* typeof x === "string" ? x.trim() : undefined
Trimmed(x) == IF x = Null THEN Null ELSE Some(trim(x[1]))

\* index.ts lines 207-229 and 241-250 without the return of line 212: the
\* disabled plugin answers, goes on to getClient() and answers its error too
GatewayCallStep_NoReturn(p, params) ==
    IF ~p.config.enabled
    THEN LET q == StepFails(p, "introduction.call", params, Null,
                            "Introduction agent is disabled")
         IN [q EXCEPT !.last.responds =
                 @ \o Responds("introduction.call", FALSE, "Introduction agent is disabled")]
    ELSE LET q == initiateIntroductionCall(p, "introduction.call",
                      [params EXCEPT !.to = Trimmed(@), !.recipientName = Trimmed(@),
                                     !.customMessage = Trimmed(@)])
         IN [q EXCEPT !.last.params = params]

\* index.ts lines 207-229 and 241-250: the gateway method introduction.call
GatewayCallStep(p, params) ==
    IF ~p.config.enabled
    THEN StepFails(p, "introduction.call", params, Null, "Introduction agent is disabled")
    ELSE LET q == initiateIntroductionCall(p, "introduction.call",
                      [params EXCEPT !.to = Trimmed(@), !.recipientName = Trimmed(@),
                                     !.customMessage = Trimmed(@)])
         IN [q EXCEPT !.last.params = params]

\* index.ts lines 286-305 and 319-323 (the tool introduction_call) and lines
\* 391-399 and 411-417 (the command introduce)
DirectCallStep(p, entry, params) == initiateIntroductionCall(p, entry, params)

\* index.ts lines 257-272, 334-349 and 359-363, 427-436 and 461-467: the
\* three status entry points
StatusStep(p, entry, params) ==
    LET callId == IF params.callId = Null THEN "" ELSE trim(params.callId[1])
    IN IF callId = ""
       THEN StepFails(p, entry, params, Null,
                      IF entry = "introduce-status"
                      THEN "Call ID required. Use --id <callId>"
                      ELSE "callId required")
       ELSE checkCallStatus(p, entry, params, callId)

\* index.ts lines 231-240, 307-318 and 401-410: a call entry point after the
\* answer to its request
CallAnswered(p, entry, response) ==
    LET res == InitiateCallResult(response)
    IN [p EXCEPT !.pending[entry] = @ - 1,
                 !.last = [entry |-> entry, phase |-> "answer", params |-> NoParams,
                           env |-> NoEnv, toNumber |-> Null,
                           outcome |-> IF res.success THEN "ok" ELSE "error",
                           error |-> IF res.success THEN "" ELSE res.error[1],
                           request |-> Null, constructed |-> FALSE,
                           response |-> Some(response), result |-> Some(res),
                           responds |-> Responds(entry, res.success,
                                                 IF res.success THEN "" ELSE res.error[1]),
                           payload |-> Payload(entry, res.success,
                                               IF res.success THEN "" ELSE res.error[1],
                                               res.callId)]]

\* index.ts lines 266-272, 349-363 and 436-467: a status entry point after the
\* answer to its request
StatusAnswered(p, entry, response) ==
    LET res == GetCallStatusResult(response)
    IN [p EXCEPT !.pending[entry] = @ - 1,
                 !.last = [entry |-> entry, phase |-> "answer", params |-> NoParams,
                           env |-> NoEnv, toNumber |-> Null,
                           outcome |-> IF res.threw THEN "error" ELSE "ok",
                           error |-> res.error,
                           request |-> Null, constructed |-> FALSE,
                           response |-> Some(response), result |-> Null,
                           responds |-> Responds(entry, ~res.threw, res.error),
                           payload |-> Payload(entry, ~res.threw, res.error,
                                               IF res.threw THEN Null
                                               ELSE Some(res.value[1].id))]]

(***************************************************************************)
(* The state machine: one call of parseReservationDate at a clock reading. *)
(***************************************************************************)
Init ==
    /\ now \in Clocks
    /\ dateInput = Undefined
    /\ phrase = NoPhrase
    /\ result = NoResult
    /\ pc = "idle"
    /\ earlier = NoResult
    /\ resv = ResvIdle
    /\ plug = PlugIdle
    /\ phone = PhoneIdle

\* a call with a string returns the record of lines 56 or 64
ParseReturns ==
    /\ pc = "idle"
    /\ \E p \in Phrases :
        /\ phrase' = p
        /\ dateInput' = String(p.text)
        /\ result' = parseReservationDate(p.text, now)
    /\ pc' = "returned"
    /\ UNCHANGED <<now, earlier, resv, plug, phone>>

\* line 9: dateInput.toLowerCase() of a value that is no string throws a TypeError
ParseThrows ==
    /\ pc = "idle"
    /\ dateInput' = Undefined
    /\ pc' = "threw"
    /\ UNCHANGED <<now, phrase, result, earlier, resv, plug, phone>>

Next == ParseReturns \/ ParseThrows

\* the values the state takes
TypeOK ==
    /\ now \in Clocks
    /\ dateInput.type \in {"string", "undefined"}
    /\ pc \in {"idle", "returned", "threw", "returnedAgain"}
    /\ result.isValid \in BOOLEAN
    /\ result.date = Null \/ (Len(result.date) = 1 /\ result.date[1] \in Nat)
    /\ result.dayOfWeek = Null \/ \E i \in 1..Len(dayNames) : result.dayOfWeek = Some(dayNames[i])

Spec == Init /\ [][Next]_vars

(***************************************************************************)
(* The state machine of a repeated call: parseReservationDate is called    *)
(* with a string, and again with the same string at another time of the    *)
(* same calendar day.                                                      *)
(***************************************************************************)
InitClock ==
    /\ now \in RepeatClocks
    /\ dateInput = Undefined
    /\ phrase = NoPhrase
    /\ result = NoResult
    /\ pc = "idle"
    /\ earlier = NoResult
    /\ resv = ResvIdle
    /\ plug = PlugIdle
    /\ phone = PhoneIdle

\* the second call: line 6 reads the clock anew, the argument is the same
ParseAgain ==
    /\ pc = "returned"
    /\ \E t \in RepeatTimes : now' = [now EXCEPT !.timeOfDay = t]
    /\ earlier' = result
    /\ result' = parseReservationDate(dateInput.value, now')
    /\ pc' = "returnedAgain"
    /\ UNCHANGED <<dateInput, phrase, resv, plug, phone>>

NextClock == ParseReturns \/ ParseAgain

SpecClock == InitClock /\ [][NextClock]_vars

(***************************************************************************)
(* The state machine of one run of makeReservation: the run starts, and    *)
(* the text search, the place details request and the Vapi request are     *)
(* answered in turn.                                                       *)
(***************************************************************************)
\* the clock reading of the run
ReservationClock == [day |-> NewDate(RefYear, 11, 31), timeOfDay |-> 0]

\* the values of options.date
ReservationDates == {Null, Some("tomorrow"), Some(" Next Friday"), Some("whenever works")}

\* the answers to the text search; rejected stands for a fetch that rejected
\* or a body that was no JSON
SearchResponses ==
    LET answered == [rejected : {FALSE}, ok : BOOLEAN,
                     status : {"OK", "ZERO_RESULTS", "REQUEST_DENIED"},
                     results : {Null, Some(<<>>), Some(<<"place-1">>),
                                Some(<<"place-2", "place-1">>)}]
    IN answered \cup {[rejected |-> TRUE, ok |-> FALSE, status |-> "", results |-> Null]}

\* the phone numbers a place is listed with
PhoneTexts ==
    {"(212) 555-1234", "212.555.1234", "1-212-555-1234", "+1 212-555-1234",
     "+44 20 7946 0958", "555-1234", "2-212-555-1234", "12125551234567",
     "call us", "+", "+0 12 34", "+1 212-555-1234 or +1 212-555-9999",
     "212555+234", "+1 212 555 1234 5678 9012", "0125551234"}

\* the pairs of international and formatted phone number of a place
PhonePairs ==
    {<<Some(t), Null>> : t \in PhoneTexts} \cup {<<Null, Some(t)>> : t \in PhoneTexts}
    \cup {<<Null, Null>>, <<Some(""), Null>>, <<Null, Some("")>>,
          <<Some(""), Some("(212) 555-1234")>>,
          <<Some("+1 212-555-1234"), Some("(212) 555-1234")>>}

\* the answers to the place details request
DetailsResponses ==
    LET answered == {[rejected |-> FALSE, ok |-> ok, status |-> status,
                      name |-> RestaurantName,
                      international_phone_number |-> p[1],
                      formatted_phone_number |-> p[2]] :
                         ok \in BOOLEAN, status \in {"OK", "NOT_FOUND"}, p \in PhonePairs}
    IN answered \cup {[rejected |-> TRUE, ok |-> FALSE, status |-> "",
                       name |-> "", international_phone_number |-> Null,
                       formatted_phone_number |-> Null]}

\* the answers to the Vapi request
VapiResponses ==
    {[rejected |-> FALSE, ok |-> TRUE, status |-> "201", id |-> "call-1", callStatus |-> "queued"],
     [rejected |-> FALSE, ok |-> FALSE, status |-> "500", id |-> "", callStatus |-> ""],
     [rejected |-> TRUE, ok |-> FALSE, status |-> "", id |-> "", callStatus |-> ""]}

InitReservation ==
    /\ now = ReservationClock
    /\ dateInput = Undefined
    /\ phrase = NoPhrase
    /\ result = NoResult
    /\ pc = "idle"
    /\ earlier = NoResult
    /\ resv = ResvIdle
    /\ plug = PlugIdle
    /\ phone = PhoneIdle

\* makeReservation is called and sends the text search
StartReservation ==
    /\ resv.pc = "idle"
    /\ \E date \in ReservationDates : resv' = MakeReservationStart(resv, date)
    /\ UNCHANGED <<now, dateInput, phrase, result, pc, earlier, plug, phone>>

\* the text search is answered
SearchResponds ==
    /\ resv.pc = "search"
    /\ \E searchResponse \in SearchResponses :
        resv' = MakeReservationAfterSearch(resv, searchResponse)
    /\ UNCHANGED <<now, dateInput, phrase, result, pc, earlier, plug, phone>>

\* the place details request is answered
DetailsResponds ==
    /\ resv.pc = "details"
    /\ \E detailsResponse \in DetailsResponses :
        resv' = MakeReservationAfterDetails(resv, detailsResponse, now)
    /\ UNCHANGED <<now, dateInput, phrase, result, pc, earlier, plug, phone>>

\* the Vapi request is answered
VapiResponds ==
    /\ resv.pc = "call"
    /\ \E response \in VapiResponses :
        resv' = MakeReservationAfterCall(resv, response, now)
    /\ UNCHANGED <<now, dateInput, phrase, result, pc, earlier, plug, phone>>

NextReservation == StartReservation \/ SearchResponds \/ DetailsResponds \/ VapiResponds

SpecReservation == InitReservation /\ [][NextReservation]_vars

(***************************************************************************)
(* The state machine of one call of formatPhoneForCalling with a string or *)
(* with undefined.                                                         *)
(***************************************************************************)
PhonePrefixes == {"", "+", "+1 ", "1-", "(", " +44 "}

PhoneBodies == {"", "212-555-1234", "212) 555.1234", "555-1234", "12125551234", "20 7946 0958"}

PhoneSuffixes == {"", " ext 5", "+"}

\* the arguments of the call: undefined, the empty string, the numbers places
\* are listed with, and every prefix, body and suffix put together
PhoneInputs ==
    {Null, Some("")}
    \cup {Some(t) : t \in PhoneTexts}
    \cup {Some(a \o b \o c) : a \in PhonePrefixes, b \in PhoneBodies, c \in PhoneSuffixes}

InitPhone ==
    /\ now = ReservationClock
    /\ dateInput = Undefined
    /\ phrase = NoPhrase
    /\ result = NoResult
    /\ pc = "idle"
    /\ earlier = NoResult
    /\ resv = ResvIdle
    /\ plug = PlugIdle
    /\ phone = PhoneIdle

\* restaurant-lookup.mjs lines 67-88: the call returns or throws
FormatPhone ==
    /\ phone.pc = "idle"
    /\ \E phoneNumber \in PhoneInputs :
        phone' = [pc |-> "done", input |-> phoneNumber,
                  outcome |-> formatPhoneForCalling(phoneNumber)]
    /\ UNCHANGED <<now, dateInput, phrase, result, pc, earlier, resv, plug>>

NextPhone == FormatPhone

SpecPhone == InitPhone /\ [][NextPhone]_vars

(***************************************************************************)
(* The state machine of one registration of the plugin: register runs, the *)
(* six entry points are invoked in any order, invocations overlap while    *)
(* their requests await an answer, and the environment may change.         *)
(***************************************************************************)
\* an object with these three keys and no other
ConfigObject(enabled, vapiApiKey, defaultToNumber) ==
    [kind |-> "object",
     fields |-> [EmptyObject EXCEPT !.enabled = enabled, !.vapiApiKey = vapiApiKey,
                                    !.defaultToNumber = defaultToNumber]]

\* the values of api.pluginConfig: one for each way line 60 falls back to {}
\* (a falsy value, an array, a value that is no object), and objects
RawConfigs ==
    {[kind |-> k, fields |-> EmptyObject] : k \in {"undefined", "array", "string"}}
    \cup {ConfigObject(e, k, d) : e \in {Null, Some(FALSE)},
                                  k \in {Null, Some("vapi-key")},
                                  d \in {Null, Some("+15550001234"), Some("5550001234")}}
    \cup {ConfigObject(Null, Some(""), Null),
          [kind |-> "object",
           fields |-> [EmptyObject EXCEPT !.ownerName = Some("Sam"),
                                          !.voiceStability = Some(50)]],
          [kind |-> "object",
           fields |-> [EmptyObject EXCEPT !.voiceStability = Some(150)]]}

\* the values of VAPI_API_KEY in the environment
EnvKeys == {Null, Some("env-key")}

\* the values of params.to
ToValues ==
    {Null, Some(""), Some("  "), Some("+15551234567"), Some(" +15551234567 "),
     Some("15551234567"), Some("+05551234567"), Some("+1"),
     Some("+123456789012345"), Some("+1234567890123456")}

\* the values of params.recipientName and params.customMessage
NameMessagePairs ==
    {<<Null, Null>>, <<Some("Sam"), Null>>, <<Some("Sam"), Some("Hi there")>>,
     <<Some(" "), Some("  ")>>, <<Some(""), Some("")>>}

\* the parameters of the call entry points: every number without a name or a
\* message, and a well-formed number with each pair of name and message
CallParams ==
    {[to |-> to, recipientName |-> Null, customMessage |-> Null, callId |-> Null] :
        to \in ToValues}
    \cup {[to |-> Some("+15551234567"), recipientName |-> nm[1], customMessage |-> nm[2],
           callId |-> Null] : nm \in NameMessagePairs}

\* the parameters of the status entry points
StatusParams ==
    {[NoParams EXCEPT !.callId = callId] :
        callId \in {Null, Some(""), Some("  "), Some(" call-1 ")}}

\* the number of requests that await their answer
PendingCount(p) ==
    LET RECURSIVE Sum(_)
        Sum(S) == IF S = {} THEN 0
                  ELSE LET e == CHOOSE x \in S : TRUE IN p.pending[e] + Sum(S \ {e})
    IN Sum(Entries)

\* the answers of VAPI to a request of the plugin: a created call, an ok
\* response whose body is no JSON, an error status, a failed fetch
PluginResponses ==
    {[rejected |-> FALSE, ok |-> TRUE, parsed |-> TRUE, status |-> "201",
      id |-> "call-1", callStatus |-> "queued"],
     [rejected |-> FALSE, ok |-> TRUE, parsed |-> FALSE, status |-> "200",
      id |-> "", callStatus |-> ""],
     [rejected |-> FALSE, ok |-> FALSE, parsed |-> FALSE, status |-> "500",
      id |-> "", callStatus |-> ""],
     [rejected |-> TRUE, ok |-> FALSE, parsed |-> FALSE, status |-> "",
      id |-> "", callStatus |-> ""]}

\* an entry point can be invoked
Invocable ==
    /\ plug.pc = "registered"
    /\ PendingCount(plug) < MaxPending
    /\ plug.requests < MaxRequests

InitPlugin ==
    /\ now = ReservationClock
    /\ dateInput = Undefined
    /\ phrase = NoPhrase
    /\ result = NoResult
    /\ pc = "idle"
    /\ earlier = NoResult
    /\ resv = ResvIdle
    /\ plug = PlugIdle
    /\ phone = PhoneIdle

\* index.ts lines 113-141: the host calls register
Register ==
    /\ plug.pc = "unregistered"
    /\ \E raw \in RawConfigs : plug' = RegisterPlugin(plug, raw)
    /\ UNCHANGED <<now, dateInput, phrase, result, pc, earlier, resv, phone>>

\* VAPI_API_KEY is set or unset in the environment of the process
EnvChanges ==
    /\ \E key \in EnvKeys \ {plug.env.VAPI_API_KEY} :
        plug' = [plug EXCEPT !.env.VAPI_API_KEY = key]
    /\ UNCHANGED <<now, dateInput, phrase, result, pc, earlier, resv, phone>>

\* the gateway method introduction.call
GatewayCall ==
    /\ Invocable
    /\ \E params \in CallParams : plug' = GatewayCallStep(plug, params)
    /\ UNCHANGED <<now, dateInput, phrase, result, pc, earlier, resv, phone>>

\* the tool introduction_call
ToolCall ==
    /\ Invocable
    /\ \E params \in CallParams : plug' = DirectCallStep(plug, "introduction_call", params)
    /\ UNCHANGED <<now, dateInput, phrase, result, pc, earlier, resv, phone>>

\* the command introduce
CliIntroduce ==
    /\ Invocable
    /\ \E params \in CallParams : plug' = DirectCallStep(plug, "introduce", params)
    /\ UNCHANGED <<now, dateInput, phrase, result, pc, earlier, resv, phone>>

\* the gateway method introduction.status
GatewayStatus ==
    /\ Invocable
    /\ \E params \in StatusParams : plug' = StatusStep(plug, "introduction.status", params)
    /\ UNCHANGED <<now, dateInput, phrase, result, pc, earlier, resv, phone>>

\* the tool check_introduction_status
ToolStatus ==
    /\ Invocable
    /\ \E params \in StatusParams :
        plug' = StatusStep(plug, "check_introduction_status", params)
    /\ UNCHANGED <<now, dateInput, phrase, result, pc, earlier, resv, phone>>

\* the command introduce-status
CliIntroduceStatus ==
    /\ Invocable
    /\ \E params \in StatusParams : plug' = StatusStep(plug, "introduce-status", params)
    /\ UNCHANGED <<now, dateInput, phrase, result, pc, earlier, resv, phone>>

\* VAPI answers the request of a call entry point
CallRequestAnswered ==
    /\ \E entry \in CallEntries :
        /\ plug.pending[entry] > 0
        /\ \E response \in PluginResponses : plug' = CallAnswered(plug, entry, response)
    /\ UNCHANGED <<now, dateInput, phrase, result, pc, earlier, resv, phone>>

\* VAPI answers the request of a status entry point
StatusRequestAnswered ==
    /\ \E entry \in StatusEntries :
        /\ plug.pending[entry] > 0
        /\ \E response \in PluginResponses : plug' = StatusAnswered(plug, entry, response)
    /\ UNCHANGED <<now, dateInput, phrase, result, pc, earlier, resv, phone>>

NextPlugin ==
    \/ Register
    \/ EnvChanges
    \/ GatewayCall
    \/ ToolCall
    \/ CliIntroduce
    \/ GatewayStatus
    \/ ToolStatus
    \/ CliIntroduceStatus
    \/ CallRequestAnswered
    \/ StatusRequestAnswered

SpecPlugin == InitPlugin /\ [][NextPlugin]_vars

(***************************************************************************)
(* The calendar of the properties.                                         *)
(***************************************************************************)
EnglishWeekdays ==
    <<"Sunday", "Monday", "Tuesday", "Wednesday", "Thursday", "Friday", "Saturday">>

EnglishMonths ==
    <<"January", "February", "March", "April", "May", "June", "July", "August",
      "September", "October", "November", "December">>

\* the ordinal suffix of English
EnglishSuffix(n) ==
    IF n % 100 \in 11..13 THEN "th"
    ELSE CASE n % 10 = 1 -> "st"
           [] n % 10 = 2 -> "nd"
           [] n % 10 = 3 -> "rd"
           [] OTHER -> "th"

Returned == pc = "returned"

\* the reference calendar day and its parts
RefDay == now.day

RefYearNow == getFullYear(RefDay)

\* month m (1 = January), day d lies before the reference day within its year
BeforeRefDay(m, d) ==
    \/ m - 1 < getMonth(RefDay)
    \/ m - 1 = getMonth(RefDay) /\ d < getDate(RefDay)

\* the result is valid and dated year y, month m (1 = January), day d
DatedExactly(y, m, d) ==
    /\ result.isValid
    /\ result.date # Null
    /\ getFullYear(result.date[1]) = y
    /\ getMonth(result.date[1]) = m - 1
    /\ getDate(result.date[1]) = d

\* the result is valid, n days after the reference day, on weekday w
DaysAhead(n) == result.isValid /\ result.date = Some(RefDay + n)

OnWeekday(w) ==
    /\ result.isValid
    /\ result.date # Null
    /\ getDay(result.date[1]) = w
    /\ result.dayOfWeek = Some(EnglishWeekdays[w + 1])

(***************************************************************************)
(* C1: a returned record is valid exactly when it has both a date and a    *)
(* weekday; an invalid record has neither, and its formatted and original  *)
(* are the argument as given.                                              *)
(***************************************************************************)
C1_ValidIffDated ==
    Returned =>
        /\ result.isValid <=> (result.date # Null /\ result.dayOfWeek # Null)
        /\ ~result.isValid =>
            /\ result.formatted = result.original
            /\ result.original = dateInput.value
            /\ result.date = Null
            /\ result.dayOfWeek = Null

C1_Witness ==
    /\ Returned
    /\ ~result.isValid
    /\ dateInput.value = "Whenever Works "
    /\ result.formatted = "Whenever Works "

(***************************************************************************)
(* C2: a call with a string never throws, and a string of no phrase class  *)
(* yields the fallback record: invalid, formatted the argument.            *)
(***************************************************************************)
C2_TotalOverStrings ==
    /\ dateInput.type = "string" => pc = "returned"
    /\ Returned /\ phrase.class = "unrecognized" =>
        /\ ~result.isValid
        /\ result.formatted = dateInput.value
        /\ result.date = Null

C2_Witness ==
    /\ Returned
    /\ dateInput = String("1/2/3")
    /\ ~result.isValid
    /\ result.formatted = "1/2/3"

(***************************************************************************)
(* C3: "<month name> <day>" is valid and dated that month and day, of the  *)
(* clock's year when that day is not before today, else of the next year.  *)
(***************************************************************************)
C3_MonthNameDay ==
    Returned /\ phrase.class = "monthDay" =>
        DatedExactly(IF BeforeRefDay(phrase.month, phrase.day) THEN RefYearNow + 1 ELSE RefYearNow,
                     phrase.month, phrase.day)

(***************************************************************************)
(* C4: "<m>/<d>" and "<m>-<d>" are valid and dated month m, day d, of the  *)
(* clock's year when that day is not before today, else of the next year.  *)
(***************************************************************************)
C4_NumericMonthDay ==
    Returned /\ phrase.class = "numeric" =>
        DatedExactly(IF BeforeRefDay(phrase.month, phrase.day) THEN RefYearNow + 1 ELSE RefYearNow,
                     phrase.month, phrase.day)

(***************************************************************************)
(* C5: "this W" is valid, falls on weekday W, 0 to 6 days after today, and *)
(* is today when today is W.                                               *)
(***************************************************************************)
C5_ThisWeekday ==
    Returned /\ phrase.class = "thisWeekday" =>
        /\ OnWeekday(phrase.weekday)
        /\ \E n \in 0..6 : DaysAhead(n)
        /\ getDay(RefDay) = phrase.weekday => DaysAhead(0)

C5_Witness ==
    /\ Returned
    /\ phrase.class = "thisWeekday"
    /\ getDay(RefDay) = phrase.weekday
    /\ result.date = Some(RefDay)

(***************************************************************************)
(* C6: "next W" is valid, falls on weekday W, and is dated strictly after  *)
(* the dates "W" and "this W" resolve to at the same clock reading.        *)
(***************************************************************************)
C6_NextAfterNearest ==
    Returned /\ phrase.class = "nextWeekday" =>
        LET bare == parseReservationDate(days[phrase.weekday + 1], now)
            this == parseReservationDate("this " \o days[phrase.weekday + 1], now)
        IN /\ OnWeekday(phrase.weekday)
           /\ bare.isValid /\ result.date[1] > bare.date[1]
           /\ this.isValid /\ result.date[1] > this.date[1]

C6_Witness ==
    /\ Returned
    /\ phrase.class = "nextWeekday"
    /\ getDay(RefDay) = phrase.weekday
    /\ result.date = Some(RefDay + 14)
    /\ parseReservationDate(days[phrase.weekday + 1], now).date = Some(RefDay + 7)

(***************************************************************************)
(* C7: the bare phrase "W" is valid, falls on weekday W, 1 to 7 days after *)
(* today, and is 7 days after today when today is W.                       *)
(***************************************************************************)
C7_BareWeekday ==
    Returned /\ phrase.class = "weekday" =>
        /\ OnWeekday(phrase.weekday)
        /\ \E n \in 1..7 : DaysAhead(n)
        /\ getDay(RefDay) = phrase.weekday => DaysAhead(7)

C7_Witness ==
    /\ Returned
    /\ phrase.class = "weekday"
    /\ getDay(RefDay) = phrase.weekday
    /\ result.date = Some(RefDay + 7)

(***************************************************************************)
(* C8: "today", "tomorrow" and "day after tomorrow" are valid and dated 0, *)
(* 1 and 2 days after today, with the weekday of that day; on Friday       *)
(* 2024-03-15 they read "Friday, March 15th" and "Saturday, March 16th".   *)
(***************************************************************************)
LiteralOffset(class) ==
    CASE class = "today" -> 0
      [] class = "tomorrow" -> 1
      [] class = "dayAfterTomorrow" -> 2

C8_Literals ==
    Returned /\ phrase.class \in {"today", "tomorrow", "dayAfterTomorrow"} =>
        /\ DaysAhead(LiteralOffset(phrase.class))
        /\ OnWeekday((RefDay + LiteralOffset(phrase.class)) % 7)
        /\ RefDay = NewDate(2024, 2, 15) /\ phrase.class = "today" =>
            result.dayOfWeek = Some("Friday") /\ result.formatted = "Friday, March 15th"
        /\ RefDay = NewDate(2024, 2, 15) /\ phrase.class = "tomorrow" =>
            result.dayOfWeek = Some("Saturday") /\ result.formatted = "Saturday, March 16th"

\* "day after tomorrow" said on 31 December is 2 January of the next year
C8_Witness ==
    /\ Returned
    /\ phrase.class = "dayAfterTomorrow"
    /\ getMonth(RefDay) = 11 /\ getDate(RefDay) = 31
    /\ DatedExactly(RefYearNow + 1, 1, 2)

(***************************************************************************)
(* C9: a valid record's formatted is "<weekday>, <month> <day><suffix>"    *)
(* with the weekday name, full month name and day of the month of its own  *)
(* date, and its dayOfWeek is that weekday name.                           *)
(***************************************************************************)
C9_FormattedDescribesDate ==
    Returned /\ result.isValid =>
        LET t == result.date[1]
        IN /\ result.formatted =
                EnglishWeekdays[getDay(t) + 1] \o ", " \o EnglishMonths[getMonth(t) + 1] \o " "
                    \o NumberToString(getDate(t)) \o EnglishSuffix(getDate(t))
           /\ result.dayOfWeek = Some(EnglishWeekdays[getDay(t) + 1])

\* "January 5" said in 2024 after 5 January is Sunday 5 January 2025
C9_Witness ==
    /\ Returned
    /\ phrase.class = "monthDay"
    /\ DatedExactly(2025, 1, 5)
    /\ result.formatted = "Sunday, January 5th"

(***************************************************************************)
(* C10: for a day of the month n in 1..31 getOrdinal gives n followed by   *)
(* "th" for 11, 12 and 13, else "st", "nd", "rd" for a last digit 1, 2, 3, *)
(* else "th"; it is the last word of formatted.                            *)
(***************************************************************************)
C10_OrdinalSuffix ==
    Returned /\ result.isValid =>
        LET n == getDate(result.date[1])
            word == NumberToString(n) \o EnglishSuffix(n)
            f == result.formatted
        IN /\ n \in 1..31
           /\ getOrdinal(n) = word
           /\ Len(f) > Len(word)
           /\ SubSeq(f, Len(f) - Len(word), Len(f)) = " " \o word

C10_Witness ==
    /\ Returned
    /\ result.isValid
    /\ getDate(result.date[1]) = 13
    /\ SubSeq(result.formatted, Len(result.formatted) - 4, Len(result.formatted)) = " 13th"

(***************************************************************************)
(* C11: a call with s agrees with a call with lowercase(trim(s)) on        *)
(* isValid, date and dayOfWeek, and on formatted when valid; original is s *)
(* as given.                                                               *)
(***************************************************************************)
C11_CaseAndWhitespace ==
    Returned =>
        LET plain == parseReservationDate(toLowerCase(trim(dateInput.value)), now)
        IN /\ result.isValid = plain.isValid
           /\ result.date = plain.date
           /\ result.dayOfWeek = plain.dayOfWeek
           /\ result.isValid => result.formatted = plain.formatted
           /\ result.original = dateInput.value

C11_Witness ==
    /\ Returned
    /\ dateInput.value = "\tDay After Tomorrow "
    /\ result.isValid
    /\ result.original = "\tDay After Tomorrow "
    /\ result.date = Some(RefDay + 2)

(***************************************************************************)
(* C19: "next W" is dated 7 days after the date of the bare phrase "W",    *)
(* hence 8 to 14 days after today: 14 when today is W, 8 when W is         *)
(* tomorrow.                                                               *)
(***************************************************************************)
C19_NextIsBarePlusWeek ==
    Returned /\ phrase.class = "nextWeekday" =>
        LET bare == parseReservationDate(days[phrase.weekday + 1], now)
        IN /\ bare.isValid
           /\ result.isValid
           /\ result.date = Some(bare.date[1] + 7)
           /\ \E n \in 8..14 : DaysAhead(n)
           /\ getDay(RefDay) = phrase.weekday => DaysAhead(14)
           /\ getDay(RefDay + 1) = phrase.weekday => DaysAhead(8)

\* "next Monday" said on a Sunday
C19_Witness ==
    /\ Returned
    /\ phrase.class = "nextWeekday"
    /\ phrase.weekday = 1
    /\ getDay(RefDay) = 0
    /\ DaysAhead(8)

(***************************************************************************)
(* C20: a valid record is never dated before today.                        *)
(***************************************************************************)
C20_NeverBeforeToday ==
    Returned /\ result.isValid => result.date[1] >= RefDay

IsE164(number, minDigits) ==
    /\ Len(number) >= minDigits + 1
    /\ Len(number) <= 16
    /\ CharAt(number, 1) = "+"
    /\ \A i \in 2..Len(number) : CharAt(number, i) \in {"0", "1", "2", "3", "4", "5", "6", "7", "8", "9"}
    /\ CharAt(number, 2) # "0"

\* the services the requests of the run went to, in the order sent
RequestedApis == [i \in 1..Len(resv.requests) |-> resv.requests[i].api]

VapiRequested == \E i \in 1..Len(resv.requests) : resv.requests[i].api = "vapi"

\* the latest step is the start of an invocation of a call entry point
CallStarted == plug.last.phase = "start" /\ plug.last.entry \in CallEntries

DisabledError == "Introduction agent is disabled"

E164Error == "Phone number must be in E.164 format (e.g., +15551234567)"

\* the effective target number of the latest invocation: params.to as given,
\* or defaultToNumber when params.to is absent or empty
EffectiveNumber ==
    IF plug.last.params.to # Null /\ plug.last.params.to[1] # ""
    THEN plug.last.params.to
    ELSE plug.config.defaultToNumber

\* the same with params.to trimmed when it came through the gateway method
EffectiveNumberTrimmed ==
    LET to == IF plug.last.params.to = Null THEN Null
              ELSE IF plug.last.entry = "introduction.call"
              THEN Some(trim(plug.last.params.to[1]))
              ELSE plug.last.params.to
    IN IF to # Null /\ to[1] # "" THEN to ELSE plug.config.defaultToNumber

IsNumber(x) == x # Null /\ x[1] # ""

\* no API key in the plugin config and none in the environment, at the latest
\* invocation
NoApiKey ==
    /\ plug.config.vapiApiKey = Null \/ plug.config.vapiApiKey = Some("")
    /\ plug.last.env.VAPI_API_KEY = Null \/ plug.last.env.VAPI_API_KEY = Some("")

\* README.md lines 52-69: the Default column of the configuration table, in
\* hundredths
DocumentedDefaults ==
    [enabled |-> TRUE, ownerName |-> "Angel", ownerPhone |-> "+18326166714",
     ownerEmail |-> "u.onuoha7@gmail.com", voiceStability |-> 50,
     voiceSimilarityBoost |-> 75, useSpeakerBoost |-> TRUE,
     maxDurationSeconds |-> 30000, responseDelaySeconds |-> 100,
     silenceTimeoutSeconds |-> 3000]

(***************************************************************************)
(* C13: whenever formatPhoneForCalling returns, the value is a phone       *)
(* number in E.164 format: one leading "+", then only digits, the first    *)
(* not 0, at most 15 digits.  The code returns any input that starts with  *)
(* "+" once stripped, whatever follows.                                    *)
(***************************************************************************)
C13_ReturnsE164 ==
    resv.formattedPhone # Null => IsE164(resv.formattedPhone[1], 1)

(***************************************************************************)
(* C14: while the plugin is registered with enabled = false, no entry      *)
(* point constructs a VAPI client or sends a request to VAPI, and every    *)
(* invocation ends in an error.                                            *)
(***************************************************************************)
C14_DisabledDoesNothing ==
    plug.pc = "registered" /\ ~plug.config.enabled =>
        /\ plug.client = Null
        /\ plug.constructed = 0
        /\ plug.requests = 0
        /\ \A e \in Entries : plug.pending[e] = 0
        /\ plug.last.entry # "none" =>
              /\ plug.last.outcome = "error"
              /\ plug.last.error # ""
              /\ plug.last.request = Null

\* the tool introduction_call, invoked with a well-formed number and an API key
\* in the environment, reports that the agent is disabled
C14_Witness ==
    /\ plug.pc = "registered"
    /\ ~plug.config.enabled
    /\ plug.last.entry = "introduction_call"
    /\ plug.last.params.to = Some("+15551234567")
    /\ plug.last.env.VAPI_API_KEY = Some("env-key")
    /\ plug.last.error = DisabledError
    /\ plug.requests = 0

(***************************************************************************)
(* C15, as stated: a call request is sent only when params.to, or          *)
(* defaultToNumber when params.to is absent or empty, matches              *)
(* ^\+[1-9]\d{1,14}$; for any other number the attempt fails with the      *)
(* E.164 error and no request is sent, through every entry point.          *)
(***************************************************************************)
C15_OnlyE164AsGiven ==
    CallStarted =>
        /\ plug.last.request # Null =>
              IsNumber(EffectiveNumber) /\ IsE164(EffectiveNumber[1], 2)
        /\ IsNumber(EffectiveNumber) /\ ~IsE164(EffectiveNumber[1], 2) =>
              /\ plug.last.outcome = "error"
              /\ plug.last.error = E164Error
              /\ plug.last.request = Null

(***************************************************************************)
(* C15, amended: a call request is sent only when the effective number --  *)
(* params.to, trimmed when it came through the gateway method              *)
(* introduction.call, or defaultToNumber when that is absent or empty --   *)
(* matches ^\+[1-9]\d{1,14}$, and it is sent to that number; for any other *)
(* effective number no request is sent and the attempt fails with the      *)
(* E.164 error, or, through introduction.call while the plugin is          *)
(* disabled, with "Introduction agent is disabled".                        *)
(***************************************************************************)
C15_OnlyE164 ==
    CallStarted =>
        /\ plug.last.request # Null =>
              /\ IsNumber(EffectiveNumberTrimmed)
              /\ IsE164(EffectiveNumberTrimmed[1], 2)
              /\ plug.last.request[1].number = EffectiveNumberTrimmed[1]
        /\ IsNumber(EffectiveNumberTrimmed) /\ ~IsE164(EffectiveNumberTrimmed[1], 2) =>
              /\ plug.last.outcome = "error"
              /\ plug.last.request = Null
              /\ plug.last.error =
                    IF plug.last.entry = "introduction.call" /\ ~plug.config.enabled
                    THEN DisabledError
                    ELSE E164Error

\* a sixteen-digit number given to the command introduce of an enabled plugin
\* with an API key is refused with the E.164 error
C15_Witness ==
    /\ CallStarted
    /\ plug.last.entry = "introduce"
    /\ plug.config.enabled
    /\ plug.validation.valid
    /\ plug.last.params.to = Some("+1234567890123456")
    /\ plug.last.error = E164Error
    /\ plug.last.request = Null

(***************************************************************************)
(* C16: with no VAPI API key in the plugin config and none in the          *)
(* environment, an attempt to make an introduction call with a well-formed *)
(* number fails with the error "VAPI API key not configured".  getClient   *)
(* throws the message of validateConfig, or that the agent is disabled,    *)
(* before a client is constructed.                                         *)
(***************************************************************************)
C16_MissingKeyError ==
    /\ CallStarted
    /\ NoApiKey
    /\ IsNumber(EffectiveNumberTrimmed)
    /\ IsE164(EffectiveNumberTrimmed[1], 2)
    => /\ plug.last.outcome = "error"
       /\ plug.last.error = "VAPI API key not configured"

(***************************************************************************)
(* C17: resolveConfig of an empty or non-object plugin configuration       *)
(* yields the defaults of the README's configuration table, among them     *)
(* voiceStability = 0.5 and voiceSimilarityBoost = 0.75.  The schema's     *)
(* defaults of these two are 0.35 and 0.8.                                 *)
(***************************************************************************)
C17_DocumentedDefaults ==
    /\ plug.pc = "registered"
    /\ plug.raw.kind # "object" \/ plug.raw.fields = EmptyObject
    => \A k \in DOMAIN DocumentedDefaults : plug.config[k] = DocumentedDefaults[k]

(***************************************************************************)
(* C18: makeReservation runs its steps in the order restaurant lookup,     *)
(* phone-number presence check, phone formatting, Vapi call.  A request to *)
(* Vapi is made only after findRestaurant succeeded, the restaurant has a  *)
(* phone number and formatPhoneForCalling returned; when an earlier step   *)
(* fails its error reaches the caller, no request to Vapi is made and no   *)
(* success result is returned.                                             *)
(***************************************************************************)
C18_StepOrder ==
    /\ VapiRequested =>
          /\ RequestedApis = <<"textsearch", "details", "vapi">>
          /\ resv.restaurant # Null
          /\ IsNumber(resv.restaurant[1].phoneNumber)
          /\ resv.formattedPhone # Null
          /\ ~formatPhoneForCalling(resv.restaurant[1].phoneNumber).threw
          /\ resv.requests[3].arg = resv.formattedPhone[1]
    /\ resv.pc = "threw" /\ resv.step \in {"lookup", "presence", "format"} =>
          /\ ~VapiRequested
          /\ resv.value = Null
          /\ resv.error # Null
          /\ resv.step = "lookup" => resv.restaurant = Null
          /\ resv.step = "presence" =>
                resv.error = Some("Restaurant phone number not available")
          /\ resv.step = "format" =>
                resv.error = Some(formatPhoneForCalling(resv.restaurant[1].phoneNumber).error)
    /\ resv.value # Null => VapiRequested /\ resv.pc = "returned"

\* a place listed with a seven-digit number: the formatting throws after the
\* two lookup requests, and no request goes to Vapi
C18_Witness ==
    /\ resv.pc = "threw"
    /\ resv.step = "format"
    /\ resv.restaurant # Null
    /\ resv.restaurant[1].phoneNumber = Some("555-1234")
    /\ resv.error = Some("Invalid phone number format: 555-1234")
    /\ RequestedApis = <<"textsearch", "details">>

(***************************************************************************)
(* C21: makeReservationCall puts into the call prompt, and returns as      *)
(* reservationDetails.date, the resolver's formatted string when the date  *)
(* text resolves and the raw date text otherwise;                          *)
(* reservationDetails.originalDate is the raw date text, and               *)
(* reservationDetails.dayOfWeek is the resolved weekday name when the text *)
(* resolves and null otherwise.                                            *)
(***************************************************************************)
C21_DateForCall ==
    VapiRequested =>
        LET raw == resv.date[1]
            parsed == parseReservationDate(raw, now)
            expected == IF parsed.isValid THEN parsed.formatted ELSE raw
        IN /\ resv.requests[Len(resv.requests)].date = expected
           /\ parsed.isValid =>
                 /\ parsed.date # Null
                 /\ expected = FormatDate(parsed.date[1])
           /\ resv.callResult # Null =>
                 LET details == resv.callResult[1].reservationDetails
                 IN /\ details.date = expected
                    /\ details.originalDate = raw
                    /\ details.dayOfWeek =
                          IF parsed.isValid
                          THEN Some(EnglishWeekdays[getDay(parsed.date[1]) + 1])
                          ELSE Null

\* " Next Friday" asked on Sunday 31 December is sent and returned as Friday
\* the 12th of January, with the text as given for originalDate
C21_Witness ==
    /\ resv.pc = "returned"
    /\ resv.date = Some(" Next Friday")
    /\ resv.requests[3].date = "Friday, January 12th"
    /\ resv.callResult[1].reservationDetails.date = "Friday, January 12th"
    /\ resv.callResult[1].reservationDetails.originalDate = " Next Friday"
    /\ resv.callResult[1].reservationDetails.dayOfWeek = Some("Friday")

(***************************************************************************)
(* C22: findRestaurant sends the place-details request only after the text *)
(* search answered HTTP ok with status "OK" and at least one result, and   *)
(* for the place_id of the first result; it throws, returning no record,   *)
(* when the search is not OK, when there is no result, or when the details *)
(* answer is not OK; otherwise it returns a record whose phoneNumber is    *)
(* the international number if present and the formatted number if not.    *)
(***************************************************************************)
SearchFound(searchResponse) ==
    /\ ~searchResponse.rejected
    /\ searchResponse.ok
    /\ searchResponse.status = "OK"
    /\ searchResponse.results # Null
    /\ Len(searchResponse.results[1]) >= 1

DetailsFound(detailsResponse) ==
    /\ ~detailsResponse.rejected
    /\ detailsResponse.ok
    /\ detailsResponse.status = "OK"

C22_LookupOrder ==
    /\ (\E i \in 1..Len(resv.requests) : resv.requests[i].api = "details") =>
          /\ resv.searchResponse # Null
          /\ SearchFound(resv.searchResponse[1])
          /\ resv.requests[2] = DetailsRequest(Head(resv.searchResponse[1].results[1]))
          /\ resv.requests[1].api = "textsearch"
    /\ resv.searchResponse # Null /\ ~SearchFound(resv.searchResponse[1]) =>
          /\ resv.pc = "threw"
          /\ resv.step = "lookup"
          /\ resv.error # Null
          /\ resv.restaurant = Null
          /\ Len(resv.requests) = 1
    /\ resv.detailsResponse # Null /\ ~DetailsFound(resv.detailsResponse[1]) =>
          /\ resv.pc = "threw"
          /\ resv.step = "lookup"
          /\ resv.error # Null
          /\ resv.restaurant = Null
    /\ resv.detailsResponse # Null /\ DetailsFound(resv.detailsResponse[1]) =>
          LET international == resv.detailsResponse[1].international_phone_number
          IN /\ resv.restaurant # Null
             /\ resv.restaurant[1].placeId = Head(resv.searchResponse[1].results[1])
             /\ resv.restaurant[1].phoneNumber =
                   IF IsNumber(international)
                   THEN international
                   ELSE resv.detailsResponse[1].formatted_phone_number

\* the search lists place-2 before place-1; place-2 is listed with both
\* numbers and the record holds the international one
C22_Witness ==
    /\ resv.searchResponse = Some([rejected |-> FALSE, ok |-> TRUE, status |-> "OK",
                                   results |-> Some(<<"place-2", "place-1">>)])
    /\ resv.requests[2].arg = "place-2"
    /\ resv.detailsResponse # Null
    /\ resv.detailsResponse[1].formatted_phone_number = Some("(212) 555-1234")
    /\ resv.restaurant # Null
    /\ resv.restaurant[1].placeId = "place-2"
    /\ resv.restaurant[1].phoneNumber = Some("+1 212-555-1234")

(***************************************************************************)
(* C23: formatPhoneForCalling throws "No phone number provided" for an     *)
(* empty or missing input.  Otherwise, with every character other than a   *)
(* digit or "+" stripped: it returns the stripped string unchanged when it *)
(* starts with "+"; else "+1" and the digits when exactly 10 characters    *)
(* remain; else "+" and the digits when exactly 11 remain and the first is *)
(* "1"; and it throws "Invalid phone number format" in every other case.   *)
(***************************************************************************)
\* the digits and "+" signs of a string, in their order
RECURSIVE DigitsAndPlus(_)
DigitsAndPlus(s) ==
    IF Len(s) = 0 THEN ""
    ELSE LET last == SubSeq(s, Len(s), Len(s))
         IN DigitsAndPlus(SubSeq(s, 1, Len(s) - 1))
            \o (IF last \in {"0", "1", "2", "3", "4", "5", "6", "7", "8", "9", "+"}
                THEN last ELSE "")

C24_RespondsOnce ==
    plug.last.entry \in GatewayEntries =>
        LET step == plug.last
        IN /\ Len(step.responds) = IF step.outcome = "pending" THEN 0 ELSE 1
           /\ step.outcome = "pending" =>
                 /\ step.phase = "start"
                 /\ step.request # Null
                 /\ plug.pending[step.entry] > 0
           /\ step.phase = "start" /\ step.outcome # "pending" => step.request = Null
           /\ \A i \in 1..Len(step.responds) :
                 /\ step.responds[i].ok = (step.outcome = "ok")
                 /\ step.responds[i].ok =>
                       /\ step.phase = "answer"
                       /\ step.response # Null
                       /\ ~step.response[1].rejected
                       /\ step.response[1].ok

\* introduction.status after VAPI answered with the call: one respond(true)
C24_Witness ==
    /\ plug.last.entry = "introduction.status"
    /\ plug.last.phase = "answer"
    /\ plug.last.response # Null
    /\ plug.last.response[1].ok
    /\ plug.last.responds = <<[ok |-> TRUE, error |-> ""]>>


(***************************************************************************)
(* C25: initiateCall never throws.  It returns success = true with the     *)
(* callId and status of the body if and only if the HTTP response was ok   *)
(* and its body parsed as JSON; otherwise (a failed fetch, a response that *)
(* is not ok, an ok response whose body is no JSON) it returns success =   *)
(* false with a non-empty error and no callId.  The tool introduction_call *)
(* never throws either: every invocation ends with a payload, and the      *)
(* payload of a failure, validation errors included, has an error field.   *)
(***************************************************************************)
\* the step after the answer to the request of initiateCall
CallAnswerStep == plug.last.phase = "answer" /\ plug.last.entry \in CallEntries

\* what initiateCall returned has one of the two shapes of its result
ResultShaped(res) ==
    IF res.success
    THEN res.callId # Null /\ res.status # Null /\ res.error = Null
    ELSE res.error # Null /\ res.error[1] # "" /\ res.callId = Null /\ res.status = Null

\* the tool introduction_call ends every invocation with a payload
ToolReportsFailures ==
    plug.last.entry = "introduction_call" /\ plug.last.outcome # "pending" =>
        /\ plug.last.payload # Null
        /\ plug.last.outcome = "error" =>
              /\ plug.last.payload[1].error # Null
              /\ plug.last.payload[1].error[1] # ""
              /\ plug.last.payload[1].callId = Null
        /\ plug.last.outcome = "ok" =>
              /\ plug.last.payload[1].error = Null
              /\ plug.last.payload[1].callId # Null

\* the claim as stated: success exactly for the ok responses
C25_SuccessIffOk ==
    /\ CallAnswerStep =>
          /\ plug.last.result # Null
          /\ ResultShaped(plug.last.result[1])
          /\ plug.last.result[1].success
                = (~plug.last.response[1].rejected /\ plug.last.response[1].ok)
    /\ ToolReportsFailures

C25_SuccessIffOkAndParsed ==
    /\ CallAnswerStep =>
          /\ plug.last.result # Null
          /\ ResultShaped(plug.last.result[1])
          /\ plug.last.result[1].success
                = (/\ ~plug.last.response[1].rejected
                   /\ plug.last.response[1].ok
                   /\ plug.last.response[1].parsed)
          /\ plug.last.result[1].success =>
                /\ plug.last.result[1].callId = Some(plug.last.response[1].id)
                /\ plug.last.result[1].status = Some(plug.last.response[1].callStatus)
    /\ ToolReportsFailures

\* the tool after an ok response whose body is no JSON: a failure with the
\* message of the parser
C25_Witness ==
    /\ plug.last.entry = "introduction_call"
    /\ plug.last.phase = "answer"
    /\ plug.last.response # Null
    /\ plug.last.response[1].ok
    /\ ~plug.last.response[1].parsed
    /\ plug.last.result # Null
    /\ ~plug.last.result[1].success
    /\ plug.last.payload = Some([error |-> Some("Unexpected end of JSON input"),
                                 callId |-> Null])


(***************************************************************************)
(* C26: the first message of an introduction call is the custom message    *)
(* when it is non-empty; otherwise the personalized message naming the     *)
(* recipient when a non-empty recipient name is given; otherwise the       *)
(* generic message.  The gateway method trims both values before the       *)
(* choice, so a custom message or a recipient name that is empty or        *)
(* white space only there counts as absent.                                *)
(***************************************************************************)
\* a parameter as the entry point hands it on: trimmed by the gateway method
AsHandedOn(x) ==
    IF x # Null /\ plug.last.entry = "introduction.call" THEN Some(trim(x[1])) ELSE x

NonEmpty(x) == x # Null /\ x[1] # ""

\* the message greets the recipient by the name and presents the owner's assistant
IsPersonalizedFor(message, name) ==
    StartsWith(message, "Hey " \o name \o "! So this is Bella - I'm "
                            \o plug.config.ownerName \o "'s AI assistant.")

\* the message greets nobody by name and presents the owner's assistant
IsGeneric(message) ==
    StartsWith(message, "Hey! So... this is Bella, I'm "
                            \o plug.config.ownerName \o "'s AI assistant.")

\* the first message of the request follows the priority for a custom
\* message and a recipient name
ChosenByPriority(custom, name) ==
    LET message == plug.last.request[1].firstMessage
    IN IF NonEmpty(custom) THEN message = custom[1]
       ELSE IF NonEmpty(name) THEN IsPersonalizedFor(message, name[1])
       ELSE IsGeneric(message)

\* the claim as stated: only the custom message is trimmed by the gateway
C26_PriorityNameAsGiven ==
    CallStarted /\ plug.last.request # Null =>
        \/ ChosenByPriority(AsHandedOn(plug.last.params.customMessage),
                            plug.last.params.recipientName)
        \/ /\ NonEmpty(AsHandedOn(plug.last.params.recipientName))
           /\ ChosenByPriority(AsHandedOn(plug.last.params.customMessage),
                               AsHandedOn(plug.last.params.recipientName))

C26_Priority ==
    CallStarted /\ plug.last.request # Null =>
        ChosenByPriority(AsHandedOn(plug.last.params.customMessage),
                         AsHandedOn(plug.last.params.recipientName))

\* the gateway method with a name and a message of white space: the generic
\* message
C26_Witness ==
    /\ plug.last.entry = "introduction.call"
    /\ plug.last.params.recipientName = Some(" ")
    /\ plug.last.params.customMessage = Some("  ")
    /\ plug.last.request # Null
    /\ IsGeneric(plug.last.request[1].firstMessage)


(***************************************************************************)
(* C27: the client of a registration is created lazily and at most once.   *)
(* register creates none; at most one VapiClient is ever constructed; it   *)
(* is constructed by the first call of getClient() made while the plugin   *)
(* is enabled, the configuration was valid at register and an API key is   *)
(* still available (an earlier call made after the key left the            *)
(* environment throws "VAPI API key not configured" and creates none);     *)
(* every later invocation uses that client.                                *)
(***************************************************************************)
\* the API key the constructor would find at the latest step
KeyAtStep ==
    OrElse(plug.config.vapiApiKey, plug.last.env.VAPI_API_KEY)

\* every request is sent with the keys of the one client
RequestsUseClient ==
    plug.last.request # Null =>
        /\ plug.client # Null
        /\ plug.last.request[1].apiKey = plug.client[1].apiKey
        /\ plug.last.request[1].phoneNumberId = plug.client[1].phoneNumberId

\* the errors of an invocation that never called getClient()
ErrorsBeforeClient ==
    {DisabledError, E164Error, "Phone number is required (no default configured)",
     "callId required", "Call ID required. Use --id <callId>"}

\* the latest step called getClient()
StepReachedClient ==
    /\ plug.last.phase = "start"
    /\ plug.last.outcome = "pending" \/ plug.last.error \notin ErrorsBeforeClient

\* the claim as stated: the client is made by the first call of getClient()
\* that finds the plugin enabled and the configuration valid
C27_FirstValidCallConstructs ==
    /\ plug.constructed <= 1
    /\ plug.constructed = 1 => plug.madeByFirst
    /\ ~plug.reached => plug.constructed = 0 /\ plug.client = Null
    /\ RequestsUseClient

C27_LazyOnce ==
    /\ plug.constructed <= 1
    /\ (plug.client = Null) = (plug.constructed = 0)
    /\ ~plug.reached => plug.constructed = 0
    /\ plug.last.constructed =>
          /\ plug.config.enabled
          /\ plug.validation.valid
          /\ Truthy(KeyAtStep)
          /\ plug.client = Some([apiKey |-> KeyAtStep[1],
                                 phoneNumberId |-> plug.last.request[1].phoneNumberId])
    /\ StepReachedClient /\ plug.config.enabled /\ plug.validation.valid =>
          /\ plug.reached
          /\ IF Truthy(KeyAtStep) \/ plug.constructed = 1
             THEN /\ plug.last.outcome = "pending"
                  /\ plug.constructed = 1
             ELSE /\ plug.last.error = "VAPI API key not configured"
                  /\ plug.constructed = 0
    /\ RequestsUseClient

\* the client is made by a later call than the first that reached the
\* constructor and is used by the request of that call
C27_Witness ==
    /\ plug.constructed = 1
    /\ plug.reached
    /\ ~plug.madeByFirst
    /\ plug.last.constructed
    /\ plug.last.request # Null
    /\ plug.last.request[1].apiKey = "env-key"

=============================================================================
